---- MODULE Spec2Model ----
(***************************************************************************)
(* Model of the AI bulk website classifier: the SQLite result store        *)
(* (src/src/database.py), the /classify endpoint of the enhanced backend   *)
(* (src/flask_backend_enhanced.py), the CLI pipeline                       *)
(* (src/run_CLI_pipeline.py) and the classifier gateway                    *)
(* (src/src/openai_client.py).                                             *)
(*                                                                         *)
(* Strings that the code compares (domains) are sequences of one-character *)
(* strings, so that strip/lower/TRIM/LOWER/LIKE are computed, not assumed. *)
(***************************************************************************)
EXTENDS Integers, Sequences, FiniteSets, TLC

VARIABLES rows, seq, batch_metadata, now, call, run, csv_file, prev

vars == <<rows, seq, batch_metadata, now, call, run, csv_file, prev>>

(***************************************************************************)
(* Bounds of the model.                                                    *)
(***************************************************************************)
MaxRecs == 2

MaxId == 2

MaxClock == 1

MaxDomains == 2

(***************************************************************************)
(* Python None, and the falsy config (None or {}).                         *)
(***************************************************************************)
NoneVal == <<>>

(***************************************************************************)
(* String functions.  Python's str.strip() removes every whitespace        *)
(* character, SQLite's TRIM() removes spaces only; Python's str.lower() is *)
(* Unicode-aware, SQLite's built-in LOWER() folds ASCII letters only.      *)
(***************************************************************************)
PyWhitespace == {" ", "\t"}

SqlTrimChars == {" "}

RECURSIVE LStrip(_, _)
LStrip(s, ws) ==
    IF s = <<>> THEN s
    ELSE IF Head(s) \in ws THEN LStrip(Tail(s), ws) ELSE s

RECURSIVE RStrip(_, _)
RStrip(s, ws) ==
    IF s = <<>> THEN s
    ELSE IF s[Len(s)] \in ws THEN RStrip(SubSeq(s, 1, Len(s) - 1), ws) ELSE s

AsciiLowerChar(c) ==
    CASE c = "A" -> "a"
      [] c = "B" -> "b"
      [] OTHER -> c

UnicodeLowerChar(c) ==
    CASE c = "É" -> "é"
      [] OTHER -> AsciiLowerChar(c)

PyStrip(s) == RStrip(LStrip(s, PyWhitespace), PyWhitespace)

PyLower(s) == [i \in 1..Len(s) |-> UnicodeLowerChar(s[i])]

SqlTrim(s) == RStrip(LStrip(s, SqlTrimChars), SqlTrimChars)

SqlLower(s) == [i \in 1..Len(s) |-> AsciiLowerChar(s[i])]

(***************************************************************************)
(* The inputs of the model: domain strings, record payloads, batch ids.    *)
(***************************************************************************)
DomainInputs ==
    { <<"A">>, <<"a", " ">>, <<"É">>, <<"\t">>, <<"a", "b">> }

Rec(d, l, s) == [domain |-> d, classification_label |-> l, summary |-> s]

ResultInputs ==
    { Rec(<<"A">>, "Marketing", "s1"), Rec(<<"a", " ">>, "Portal", "s2"),
      Rec(<<"É">>, "Marketing", "s1"), Rec(<<"\t">>, "Marketing", "s1") }

ResultLists == UNION { [1..n -> ResultInputs] : n \in 0..MaxRecs }

(* The store's direct callers (write_results, write_database_only) pass no  *)
(* batch id; the /classify endpoint passes its own, see classify_store.     *)
BatchIdInputs == { NoneVal }

ConfigInputs == { NoneVal, <<"method", "html">> }

(* f"batch_{datetime.now().strftime('%Y%m%d_%H%M%S')}" *)
GeneratedBatchId(t) == <<"batch", t>>

(***************************************************************************)
(* ClassificationDatabase.insert_results                                   *)
(***************************************************************************)
NormalizedDomain(d) == PyLower(PyStrip(d))

MatchesDomain_NoLower(row, domain) == SqlTrim(row.domain) = domain

MatchesDomain(row, domain) == SqlLower(SqlTrim(row.domain)) = domain

NewRow(id, result, batch_id, t) ==
    [ id |-> id,
      domain |-> PyStrip(result.domain),
      classification_label |-> result.classification_label,
      summary |-> result.summary,
      processed_at |-> t,
      batch_id |-> batch_id ]

InsertOne(st, result, batch_id, overwrite, t) ==
    LET domain == NormalizedDomain(result.domain)
        Keep(r) == ~MatchesDomain(r, domain)
        existing_record == \E i \in 1..Len(st.rows) : MatchesDomain(st.rows[i], domain)
        kept == IF existing_record THEN SelectSeq(st.rows, Keep) ELSE st.rows
    IN  IF domain = <<>> THEN st
        ELSE IF existing_record /\ ~overwrite
             THEN [st EXCEPT !.skipped_count = @ + 1]
             ELSE [ rows |-> Append(kept, NewRow(st.seq + 1, result, batch_id, t)),
                    seq |-> st.seq + 1,
                    inserted_count |-> st.inserted_count + 1,
                    updated_count |-> st.updated_count + (IF existing_record THEN 1 ELSE 0),
                    skipped_count |-> st.skipped_count ]

RECURSIVE InsertLoop(_, _, _, _, _)
InsertLoop(st, results, batch_id, overwrite, t) ==
    IF results = <<>> THEN st
    ELSE InsertLoop(InsertOne(st, Head(results), batch_id, overwrite, t),
                    Tail(results), batch_id, overwrite, t)

BatchRecord(results, config, t) ==
    [ total_domains |-> Len(results), config |-> config,
      started_at |-> t, completed_at |-> t, status |-> "completed" ]

PutBatch(bm, batch_id, rec) ==
    [ b \in DOMAIN bm \cup {batch_id} |-> IF b = batch_id THEN rec ELSE bm[b] ]

(* The state of the store after insert_results(results, batch_id, config,  *)
(* overwrite) read the clock at t and committed.                           *)
InsertResults(store, results, batch_id_arg, config, overwrite, t) ==
    LET batch_id == IF batch_id_arg = NoneVal THEN GeneratedBatchId(t) ELSE batch_id_arg
        st0 == [ rows |-> store.rows, seq |-> store.seq, inserted_count |-> 0,
                 updated_count |-> 0, skipped_count |-> 0 ]
        st == InsertLoop(st0, results, batch_id, overwrite, t)
    IN  [ rows |-> st.rows,
          seq |-> st.seq,
          batch_metadata |-> IF config # NoneVal
                             THEN PutBatch(store.batch_metadata, batch_id,
                                           BatchRecord(results, config, t))
                             ELSE store.batch_metadata,
          batch_id |-> batch_id,
          inserted_count |-> st.inserted_count,
          updated_count |-> st.updated_count,
          skipped_count |-> st.skipped_count ]

Store == [ rows |-> rows, seq |-> seq, batch_metadata |-> batch_metadata ]

(***************************************************************************)
(* ClassificationDatabase.domain_exists                                    *)
(***************************************************************************)
DomainExists(store, domain_arg) ==
    LET domain == NormalizedDomain(domain_arg)
    IN  \E i \in 1..Len(store.rows) : MatchesDomain(store.rows[i], domain)

(***************************************************************************)
(* ClassificationDatabase.delete_batch: the rows of the batch, then the    *)
(* batch record; returns the rowcount of the first DELETE.                 *)
(***************************************************************************)
BatchIds == { GeneratedBatchId(t) : t \in 0..MaxClock }

DeleteBatch_KeepRecord(store, batch_id) ==
    LET Other(r) == r.batch_id # batch_id
        kept == SelectSeq(store.rows, Other)
    IN  [ rows |-> kept,
          seq |-> store.seq,
          batch_metadata |-> store.batch_metadata,
          deleted_count |-> Len(store.rows) - Len(kept) ]

DeleteBatch(store, batch_id) ==
    LET Other(r) == r.batch_id # batch_id
        kept == SelectSeq(store.rows, Other)
    IN  [ rows |-> kept,
          seq |-> store.seq,
          batch_metadata |-> [ b \in DOMAIN store.batch_metadata \ {batch_id} |->
                                 store.batch_metadata[b] ],
          deleted_count |-> Len(store.rows) - Len(kept) ]

(***************************************************************************)
(* The store specification: sequential calls of the store's operations.    *)
(* call records the arguments and the outcome of the call that has just    *)
(* run, until the call returns to its caller.                              *)
(***************************************************************************)
NoCall == [op |-> "none"]

NoRun == [pc |-> "idle"]

(* The CLI's output CSV file does not exist. *)
NoFile == [exists |-> FALSE, lines |-> <<>>]

Init ==
    /\ rows = <<>>
    /\ seq = 0
    /\ batch_metadata = << >>
    /\ now = 0
    /\ call = NoCall
    /\ run = NoRun
    /\ csv_file = NoFile
    /\ prev = NoRun

insert_results ==
    /\ call = NoCall
    /\ \E results \in ResultLists, batch_id \in BatchIdInputs,
          config \in ConfigInputs, overwrite \in BOOLEAN :
        LET out == InsertResults(Store, results, batch_id, config, overwrite, now)
        IN  /\ out.seq <= MaxId
            /\ rows' = out.rows
            /\ seq' = out.seq
            /\ batch_metadata' = out.batch_metadata
            /\ call' = [ op |-> "insert_results", results |-> results,
                         overwrite |-> overwrite, config |-> config,
                         batch_id |-> out.batch_id,
                         inserted_count |-> out.inserted_count,
                         updated_count |-> out.updated_count,
                         skipped_count |-> out.skipped_count ]
            /\ UNCHANGED <<now, run, csv_file, prev>>

domain_exists ==
    /\ call = NoCall
    /\ \E domain \in DomainInputs :
        call' = [ op |-> "domain_exists", domain |-> domain,
                  ret |-> DomainExists(Store, domain) ]
    /\ UNCHANGED <<rows, seq, batch_metadata, now, run, csv_file, prev>>

delete_batch ==
    /\ call = NoCall
    /\ \E batch_id \in BatchIds :
        LET out == DeleteBatch(Store, batch_id)
        IN  /\ rows' = out.rows
            /\ seq' = out.seq
            /\ batch_metadata' = out.batch_metadata
            /\ call' = [ op |-> "delete_batch", batch_id |-> batch_id,
                         ret |-> out.deleted_count ]
    /\ UNCHANGED <<now, run, csv_file, prev>>

Return ==
    /\ call # NoCall
    /\ call' = NoCall
    /\ UNCHANGED <<rows, seq, batch_metadata, now, run, csv_file, prev>>

Tick ==
    /\ call = NoCall
    /\ now < MaxClock
    /\ now' = now + 1
    /\ UNCHANGED <<rows, seq, batch_metadata, call, run, csv_file, prev>>

Next == insert_results \/ domain_exists \/ delete_batch \/ Return \/ Tick

Spec == Init /\ [][Next]_vars

(***************************************************************************)
(* The pipelines' inputs and the outcome of one domain task.               *)
(* process_domain returns None when the fetch or anything else raised, and *)
(* otherwise the dict that classify_site returned: the classifier's own    *)
(* domain string (validated for presence only), or the Error record that   *)
(* classify_site builds for the requested domain when its retries are      *)
(* exhausted.                                                              *)
(***************************************************************************)
PipelineDomains == { <<"A">>, <<"a", " ">>, <<"a", "b">> }

DomainLists == UNION { [1..n -> PipelineDomains] : n \in 1..MaxDomains }

ClassifierDomains == { <<"a">> }

process_domain(domain) ==
    { NoneVal, Rec(domain, "Error", "failed") }
    \cup { Rec(d, "Marketing", "s1") : d \in {domain} \cup ClassifierDomains }

(***************************************************************************)
(* ClassificationDatabase.get_results(domain_filter=..., limit=1): the     *)
(* rows whose domain is LIKE %domain_filter%, newest processed_at first.   *)
(* SQLite's LIKE folds ASCII case only; % and _ in the filter are          *)
(* wildcards.  Rows with equal processed_at come in an unspecified order,  *)
(* so the operator yields the set of the possible answers.                 *)
(***************************************************************************)
RECURSIVE Like(_, _)
Like(pattern, text) ==
    IF pattern = <<>> THEN text = <<>>
    ELSE IF Head(pattern) = "%"
         THEN Like(Tail(pattern), text) \/ (text # <<>> /\ Like(pattern, Tail(text)))
         ELSE /\ text # <<>>
              /\ \/ Head(pattern) = "_"
                 \/ AsciiLowerChar(Head(pattern)) = AsciiLowerChar(Head(text))
              /\ Like(Tail(pattern), Tail(text))

DomainFilterMatches(row, domain_filter) ==
    domain_filter = <<>> \/ Like(<<"%">> \o domain_filter \o <<"%">>, row.domain)

get_results_limit1(store, domain_filter) ==
    LET matching == { i \in 1..Len(store.rows) :
                        DomainFilterMatches(store.rows[i], domain_filter) }
        newest == { i \in matching : \A j \in matching :
                        store.rows[j].processed_at <= store.rows[i].processed_at }
    IN  IF matching = {} THEN { <<>> } ELSE { << store.rows[i] >> : i \in newest }

(***************************************************************************)
(* classify_domains of flask_backend_enhanced.py (POST /classify).         *)
(*                                                                         *)
(* run is the request being served.  Besides the handler's locals it keeps  *)
(* where each record came from (skipped_idx, process_idx, results_idx:      *)
(* positions in the submitted list), what each future returned (outcomes)   *)
(* and the order in which the futures completed (completed).  prev is the   *)
(* domain list of the run that returned last, when every domain of it      *)
(* succeeded.                                                              *)
(***************************************************************************)
FlaskConfigs == { NoneVal, <<"overwrite", FALSE>>, <<"overwrite", TRUE>> }

ConfigOverwrite(config) == config # NoneVal /\ config[2]

(* f"batch_{datetime.now().strftime('%Y%m%d_%H%M%S_%f')}" *)
FlaskBatchId(t) == <<"batch_f", t>>

(* The possible partitions of the submitted domains (from position k on)   *)
(* into domains_to_process and existing_results.                           *)
RECURSIVE FlaskPartitions(_, _, _)
FlaskPartitions(store, domains, k) ==
    IF k > Len(domains)
    THEN { [domains_to_process |-> <<>>, existing_results |-> <<>>,
            process_idx |-> <<>>, skipped_idx |-> <<>>] }
    ELSE { IF existing # <<>>
           THEN [p EXCEPT !.existing_results = existing \o @,
                          !.skipped_idx = <<k>> \o @]
           ELSE [p EXCEPT !.domains_to_process = <<domains[k]>> \o @,
                          !.process_idx = <<k>> \o @]
           : existing \in get_results_limit1(store, domains[k]),
             p \in FlaskPartitions(store, domains, k + 1) }

ProcessAll(domains) ==
    [ domains_to_process |-> domains, existing_results |-> <<>>,
      process_idx |-> [k \in 1..Len(domains) |-> k], skipped_idx |-> <<>> ]

FlaskResponse(r, results) ==
    [ results |-> r.existing_results \o results,
      batch_id |-> IF results # <<>> THEN r.batch_id ELSE NoneVal,
      total_processed |-> Len(results),
      skipped |-> Len(r.domains) - Len(r.domains_to_process) ]

NewRun(entry, domains, overwrite, config, p, store) ==
    [ entry |-> entry, domains |-> domains, overwrite |-> overwrite, config |-> config,
      domains_to_process |-> p.domains_to_process,
      existing_results |-> p.existing_results,
      process_idx |-> p.process_idx, skipped_idx |-> p.skipped_idx,
      pending |-> 1..Len(p.domains_to_process),
      outcomes |-> [i \in 1..Len(p.domains_to_process) |-> NoneVal],
      completed |-> <<>>,
      rows0 |-> store.rows ]

classify_domains ==
    /\ run = NoRun
    /\ \E domains \in DomainLists, config \in FlaskConfigs :
        \E p \in IF ConfigOverwrite(config)
                  THEN { ProcessAll(domains) }
                  ELSE FlaskPartitions(Store, domains, 1) :
            LET r == NewRun("classify", domains, ConfigOverwrite(config), config, p, Store)
            IN  /\ seq + Len(p.domains_to_process) <= MaxId
                /\ run' = IF p.domains_to_process = <<>>
                          THEN r @@ [pc |-> "done", batch_id |-> NoneVal,
                                     results |-> <<>>, results_idx |-> <<>>,
                                     response |-> FlaskResponse(r, <<>>)]
                          ELSE r @@ [pc |-> "running", batch_id |-> FlaskBatchId(now),
                                     results |-> <<>>, results_idx |-> <<>>]
    /\ UNCHANGED <<rows, seq, batch_metadata, now, call, csv_file, prev>>

(* One future completes and the as_completed loop handles it. *)
classify_future_done ==
    /\ run.pc = "running" /\ run.entry = "classify"
    /\ \E i \in run.pending : \E result \in process_domain(run.domains_to_process[i]) :
        run' = [run EXCEPT !.pending = @ \ {i},
                           !.outcomes[i] = result,
                           !.completed = Append(@, i),
                           !.results = IF result # NoneVal THEN Append(@, result) ELSE @,
                           !.results_idx = IF result # NoneVal
                                           THEN Append(@, run.process_idx[i]) ELSE @]
    /\ UNCHANGED <<rows, seq, batch_metadata, now, call, csv_file, prev>>

(* The pool has joined: store the results and build the response. *)
classify_store ==
    /\ run.pc = "running" /\ run.entry = "classify" /\ run.pending = {}
    /\ LET out == IF run.results # <<>>
                  THEN InsertResults(Store, run.results, run.batch_id, run.config, FALSE, now)
                  ELSE Store
       IN  /\ rows' = out.rows
           /\ seq' = out.seq
           /\ batch_metadata' = out.batch_metadata
    /\ run' = [run EXCEPT !.pc = "done"] @@ [response |-> FlaskResponse(run, run.results)]
    /\ UNCHANGED <<now, call, csv_file, prev>>

(* db.insert_results raises (the database is locked, the disk is full):    *)
(* the except clause of lines 215-217 logs the error and the handler goes  *)
(* on to build the same response.                                          *)
classify_store_raises ==
    /\ run.pc = "running" /\ run.entry = "classify" /\ run.pending = {}
    /\ run.results # <<>>
    /\ run' = [run EXCEPT !.pc = "done"] @@
               [response |-> FlaskResponse(run, run.results), store_error |-> TRUE]
    /\ UNCHANGED <<rows, seq, batch_metadata, now, call, csv_file, prev>>

StoreFailed(r) == "store_error" \in DOMAIN r

Succeeded(outcome) == outcome # NoneVal /\ outcome.classification_label # "Error"

(* Every submitted domain was dispatched and classified in run r, and the  *)
(* classifier answered with the domain string it was asked about.          *)
AllSucceeded(r) ==
    /\ r.domains_to_process = r.domains
    /\ ~StoreFailed(r)
    /\ \A i \in 1..Len(r.domains_to_process) :
          Succeeded(r.outcomes[i]) /\ r.outcomes[i].domain = r.domains_to_process[i]

run_return ==
    /\ run.pc = "done"
    /\ run' = NoRun
    /\ prev' = IF AllSucceeded(run)
               THEN [pc |-> "succeeded", domains |-> run.domains,
                     overwrite |-> run.overwrite]
               ELSE NoRun
    /\ UNCHANGED <<rows, seq, batch_metadata, now, call, csv_file>>

NextFlask ==
    \/ classify_domains \/ classify_future_done \/ classify_store
    \/ classify_store_raises \/ run_return \/ Tick

SpecFlask == Init /\ [][NextFlask]_vars

(***************************************************************************)
(* main of run_CLI_pipeline.py.                                            *)
(*                                                                         *)
(* Python dicts keep insertion order, and assigning to a key that is       *)
(* present keeps its place: a dict is a sequence of [key, value] entries.  *)
(***************************************************************************)
DictHas(d, k) == \E i \in 1..Len(d) : d[i].key = k

DictGet(d, k) == d[CHOOSE i \in 1..Len(d) : d[i].key = k].value

DictSet(d, k, v) ==
    IF DictHas(d, k)
    THEN [i \in 1..Len(d) |-> IF d[i].key = k THEN [key |-> k, value |-> v] ELSE d[i]]
    ELSE Append(d, [key |-> k, value |-> v])

DictValues(d) == [i \in 1..Len(d) |-> d[i].value]

(* load_domains: the stripped, non-empty lines of the domains file. *)
NonEmptyLine(line) == PyStrip(line) # <<>>

load_domains(lines) ==
    LET kept == SelectSeq(lines, NonEmptyLine)
    IN  [i \in 1..Len(kept) |-> PyStrip(kept[i])]

(* The rows of the output CSV that have a domain (lines 125-143). *)
HasDomain(row) == row.domain # <<>>

ReadCsv(file, overwrite) ==
    IF ~overwrite /\ file.exists THEN SelectSeq(file.lines, HasDomain) ELSE <<>>

(* write_csv_results: the five columns of every result. *)
CsvLine(item) == Rec(item.domain, item.classification_label, item.summary)

write_csv_results(results) ==
    [exists |-> TRUE, lines |-> [i \in 1..Len(results) |-> CsvLine(results[i])]]

(* processed_domains: the domains of the CSV rows and, unless --overwrite, *)
(* the domain strings of all stored rows (lines 145-155).                  *)
ProcessedDomains(existing_results_data, store, overwrite) ==
    { existing_results_data[i].domain : i \in 1..Len(existing_results_data) }
    \cup (IF overwrite THEN {}
          ELSE { store.rows[i].domain : i \in 1..Len(store.rows) })

CliPartition(all_input_domains, processed_domains, overwrite) ==
    LET idx == { k \in 1..Len(all_input_domains) :
                   overwrite \/ all_input_domains[k] \notin processed_domains }
        ToProcess(k) == k \in idx
        Skipped(k) == k \notin idx
        positions == [k \in 1..Len(all_input_domains) |-> k]
        process_idx == SelectSeq(positions, ToProcess)
    IN  [ domains_to_process |-> [i \in 1..Len(process_idx) |-> all_input_domains[process_idx[i]]],
          process_idx |-> process_idx,
          skipped_idx |-> SelectSeq(positions, Skipped) ]

(* Lines 236-242: the existing CSV rows, then the successful results, by   *)
(* their own domain string.                                                *)
RECURSIVE DictUpdateByDomain(_, _)
DictUpdateByDomain(d, records) ==
    IF records = <<>> THEN d
    ELSE DictUpdateByDomain(DictSet(d, Head(records).domain, Head(records)), Tail(records))

FinalResultsMap(existing_results_data, successful_results, overwrite) ==
    DictUpdateByDomain(
        DictUpdateByDomain(<<>>, IF overwrite THEN <<>> ELSE existing_results_data),
        successful_results)

(* Lines 244-248: walk the input domains and emit the record of each. *)
FinalOrderedResults_MapOrder(all_input_domains, final_results_map) ==
    DictValues(final_results_map)

FinalOrderedResults(all_input_domains, final_results_map) ==
    LET InMap(k) == DictHas(final_results_map, all_input_domains[k])
        positions == [k \in 1..Len(all_input_domains) |-> k]
        emitted == SelectSeq(positions, InMap)
    IN  [i \in 1..Len(emitted) |-> DictGet(final_results_map, all_input_domains[emitted[i]])]

CliConfig == <<"method", "html">>

(* write_results of src/writer.py: the store, then the CSV file. *)
write_results(store, results, config, t) ==
    [ store |-> InsertResults(store, results, NoneVal, config, FALSE, t),
      csv_file |-> write_csv_results(results) ]

main ==
    /\ run = NoRun
    /\ \E lines \in DomainLists, overwrite \in BOOLEAN :
        LET all_input_domains == load_domains(lines)
            existing_results_data == ReadCsv(csv_file, overwrite)
            processed_domains == ProcessedDomains(existing_results_data, Store, overwrite)
            p == CliPartition(all_input_domains, processed_domains, overwrite)
            r == [ entry |-> "cli", domains |-> all_input_domains, overwrite |-> overwrite,
                   config |-> CliConfig,
                   domains_to_process |-> p.domains_to_process,
                   existing_results |-> existing_results_data,
                   process_idx |-> p.process_idx, skipped_idx |-> p.skipped_idx,
                   pending |-> 1..Len(p.domains_to_process),
                   outcomes |-> [i \in 1..Len(p.domains_to_process) |-> NoneVal],
                   completed |-> <<>>,
                   results |-> [i \in 1..Len(p.domains_to_process) |->
                                   [key |-> i, value |-> NoneVal]],
                   rows0 |-> rows ]
            w == write_results(Store, existing_results_data, NoneVal, now)
        IN  /\ seq + Len(p.domains_to_process) <= MaxId
            /\ IF p.domains_to_process # <<>>
               THEN /\ run' = r @@ [pc |-> "running"]
                    /\ UNCHANGED <<rows, seq, batch_metadata, csv_file>>
               ELSE /\ run' = r @@ [pc |-> "done", batch_id |-> NoneVal,
                                     final_ordered_results |-> <<>>]
                    /\ IF existing_results_data # <<>> \/ ~csv_file.exists
                       THEN /\ rows' = w.store.rows
                            /\ seq' = w.store.seq
                            /\ batch_metadata' = w.store.batch_metadata
                            /\ csv_file' = w.csv_file
                       ELSE UNCHANGED <<rows, seq, batch_metadata, csv_file>>
    /\ UNCHANGED <<now, call, prev>>

(* A collector that stores every result as soon as its future completes.   *)
main_future_done_WriteThrough ==
    /\ run.pc = "running" /\ run.entry = "cli"
    /\ \E i \in run.pending : \E result \in process_domain(run.domains_to_process[i]) :
        LET out == IF result # NoneVal
                   THEN InsertResults(Store, <<result>>, NoneVal, run.config, FALSE, now)
                   ELSE Store
        IN  /\ run' = [run EXCEPT !.pending = @ \ {i},
                                  !.outcomes[i] = result,
                                  !.completed = Append(@, i),
                                  !.results = IF result # NoneVal
                                              THEN DictSet(@, i, result) ELSE @]
            /\ rows' = out.rows
            /\ seq' = out.seq
            /\ batch_metadata' = out.batch_metadata
    /\ UNCHANGED <<now, call, csv_file, prev>>

(* One future completes and the as_completed loop handles it (lines        *)
(* 219-231).                                                               *)
main_future_done ==
    /\ run.pc = "running" /\ run.entry = "cli"
    /\ \E i \in run.pending : \E result \in process_domain(run.domains_to_process[i]) :
        run' = [run EXCEPT !.pending = @ \ {i},
                           !.outcomes[i] = result,
                           !.completed = Append(@, i),
                           !.results = IF result # NoneVal THEN DictSet(@, i, result) ELSE @]
    /\ UNCHANGED <<rows, seq, batch_metadata, now, call, csv_file, prev>>

IsResult(res) == res # NoneVal

(* The pool has joined: order the results and write them (lines 233-251).  *)
main_write ==
    /\ run.pc = "running" /\ run.entry = "cli" /\ run.pending = {}
    /\ LET successful_results == SelectSeq(DictValues(run.results), IsResult)
           final_results_map == FinalResultsMap(run.existing_results, successful_results,
                                                run.overwrite)
           final_ordered_results == FinalOrderedResults(run.domains, final_results_map)
           w == write_results(Store, final_ordered_results, run.config, now)
       IN  /\ rows' = w.store.rows
           /\ seq' = w.store.seq
           /\ batch_metadata' = w.store.batch_metadata
           /\ csv_file' = w.csv_file
           /\ run' = [run EXCEPT !.pc = "done"] @@
                      [batch_id |-> w.store.batch_id,
                       final_ordered_results |-> final_ordered_results]
    /\ UNCHANGED <<now, call, prev>>

NextCLI == main \/ main_future_done \/ main_write \/ run_return \/ Tick

SpecCLI == Init /\ [][NextCLI]_vars

(***************************************************************************)
(* Properties of the result store.                                         *)
(***************************************************************************)
RowsOf(rs, n) ==
    LET Same(r) == NormalizedDomain(r.domain) = n IN SelectSeq(rs, Same)

IsInsert(c) == c.op = "insert_results"

(* The greatest position of results whose record has normalized domain n.  *)
LastRecordOf(results, n) ==
    LET S == { k \in 1..Len(results) : NormalizedDomain(results[k].domain) = n }
    IN  results[CHOOSE k \in S : \A j \in S : j <= k]

TimesIn(results, n) ==
    Cardinality({ k \in 1..Len(results) : NormalizedDomain(results[k].domain) = n })

(* C1: after any sequence of insert_results calls on an initially empty    *)
(* store, the results table holds at most one row per normalized domain    *)
(* lower(trim(domain)).                                                    *)
C1_OneRowPerNormalizedDomain ==
    \A i, j \in 1..Len(rows) :
        NormalizedDomain(rows[i].domain) = NormalizedDomain(rows[j].domain) => i = j

(* C2: inserting the same domain twice with overwrite=true, in two calls   *)
(* or twice within one call, leaves exactly one row for that normalized    *)
(* domain, and the row carries the values and the batch id of the later    *)
(* record.                                                                 *)
C2_OverwriteReplaces ==
    [][ (IsInsert(call') /\ call'.overwrite) =>
        \A k \in 1..Len(call'.results) :
            LET n == NormalizedDomain(call'.results[k].domain)
                later == LastRecordOf(call'.results, n)
            IN  (n # <<>> /\ (Len(RowsOf(rows, n)) > 0 \/ TimesIn(call'.results, n) > 1))
                => /\ Len(RowsOf(rows', n)) = 1
                   /\ RowsOf(rows', n)[1].classification_label = later.classification_label
                   /\ RowsOf(rows', n)[1].summary = later.summary
                   /\ RowsOf(rows', n)[1].batch_id = call'.batch_id ]_vars

(* C3: when insert_results is called with overwrite=false and a row with   *)
(* the same normalized domain already exists, the record is skipped: the   *)
(* existing row keeps every field and no row is added for that domain.     *)
C3_SkipKeepsExistingRow ==
    [][ (IsInsert(call') /\ ~call'.overwrite) =>
        \A k \in 1..Len(call'.results) :
            LET n == NormalizedDomain(call'.results[k].domain)
            IN  (n # <<>> /\ Len(RowsOf(rows, n)) > 0) => RowsOf(rows', n) = RowsOf(rows, n) ]_vars

(* C4: once `Example.com` (here <<"A">>) is stored, domain_exists returns   *)
(* true for `example.com ` (here <<"a", " ">>), and an insert_results of    *)
(* `example.com ` with overwrite=false is skipped and leaves one row for    *)
(* the domain.                                                             *)
ExampleCom == <<"A">>

ExampleComLowerSpace == <<"a", " ">>

Stored(rs, d) == \E i \in 1..Len(rs) : rs[i].domain = d

Carries(results, d) == \E k \in 1..Len(results) : results[k].domain = d

C4_CaseInsensitiveTrimmedDedup ==
    [][ /\ (call'.op = "domain_exists" /\ call'.domain = ExampleComLowerSpace
            /\ Stored(rows, ExampleCom)) => call'.ret
        /\ (IsInsert(call') /\ ~call'.overwrite /\ Stored(rows, ExampleCom)
            /\ Carries(call'.results, ExampleComLowerSpace))
           => /\ RowsOf(rows', NormalizedDomain(ExampleCom)) = RowsOf(rows, NormalizedDomain(ExampleCom))
              /\ Len(RowsOf(rows', NormalizedDomain(ExampleCom))) = 1
              /\ call'.skipped_count >= 1 ]_vars

C4_Witness ==
    /\ IsInsert(call) /\ ~call.overwrite
    /\ call.results = << Rec(ExampleComLowerSpace, "Portal", "s2") >>
    /\ call.skipped_count = 1
    /\ Len(rows) = 1 /\ rows[1].domain = ExampleCom /\ rows[1].classification_label = "Marketing"

(***************************************************************************)
(* Properties of the pipelines.                                            *)
(***************************************************************************)
NoDuplicateRows(rs) ==
    \A i, j \in 1..Len(rs) :
        NormalizedDomain(rs[i].domain) = NormalizedDomain(rs[j].domain) => i = j

Started(r) == r.pc \in {"running", "done"}

(* C5: when the pipeline is run again without overwrite on the domain list *)
(* of the run before it, every domain of which succeeded, the second run   *)
(* dispatches no domain task, and leaves the store unchanged and without   *)
(* duplicate rows.                                                         *)
C5_RerunDispatchesNothing ==
    (Started(run) /\ ~run.overwrite /\ prev.pc = "succeeded" /\ ~prev.overwrite
        /\ run.domains = prev.domains)
    => /\ run.domains_to_process = <<>>
       /\ rows = run.rows0
       /\ NoDuplicateRows(rows)

(* C6: in /classify without overwrite, a submitted domain is skipped only  *)
(* for a stored row of the same normalized domain, and that row is the     *)
(* record returned for it.                                                 *)
C6_SkipOnlySameDomain ==
    (Started(run) /\ run.entry = "classify" /\ ~run.overwrite)
    => \A k \in 1..Len(run.existing_results) :
          NormalizedDomain(run.existing_results[k].domain)
              = NormalizedDomain(run.domains[run.skipped_idx[k]])

(* C7: in the CLI pipeline without --overwrite, no task is dispatched for  *)
(* an input domain whose normalized domain has a stored row.               *)
C7_CliSkipsStoredDomain ==
    (Started(run) /\ run.entry = "cli" /\ ~run.overwrite)
    => \A i \in 1..Len(run.domains_to_process) :
          Len(RowsOf(run.rows0, NormalizedDomain(run.domains_to_process[i]))) = 0

(* C8: when a run with overwrite set stores its results, every input       *)
(* domain that had a stored row and whose task succeeded has exactly one   *)
(* row afterwards, a new row with the run's values and batch id.           *)
C8_OverwriteRunReplaces ==
    [][ (run.pc = "running" /\ run'.pc = "done" /\ run.overwrite) =>
        \A i \in 1..Len(run.domains_to_process) :
            LET n == NormalizedDomain(run.domains_to_process[i])
            IN  (Len(RowsOf(rows, n)) > 0 /\ Succeeded(run.outcomes[i]))
                => /\ Len(RowsOf(rows', n)) = 1
                   /\ RowsOf(rows', n)[1].id > seq
                   /\ RowsOf(rows', n)[1].batch_id = run'.batch_id
                   /\ RowsOf(rows', n)[1].classification_label
                          = run.outcomes[i].classification_label ]_vars

(* C9: in the CLI pipeline, whatever the order in which the tasks          *)
(* complete, the records of the final list passed to write_results follow  *)
(* the order of the input domain list: their domains are domains of the    *)
(* input list at increasing positions.                                     *)
InInputOrder(records, domains) ==
    \E f \in [1..Len(records) -> 1..Len(domains)] :
        /\ \A k \in 1..Len(records) : domains[f[k]] = records[k].domain
        /\ \A k \in 1..(Len(records) - 1) : f[k] < f[k + 1]

C9_FinalResultsInInputOrder ==
    (run.pc = "done" /\ run.entry = "cli" /\ run.domains_to_process # <<>>)
    => InInputOrder(run.final_ordered_results, run.domains)

C9_Witness ==
    /\ run.pc = "done" /\ run.entry = "cli"
    /\ run.completed = <<2, 1>>
    /\ Len(run.final_ordered_results) = 2
    /\ run.final_ordered_results[1].domain = run.domains[1]
    /\ run.final_ordered_results[2].domain = run.domains[2]
    /\ run.domains[1] # run.domains[2]

(* C10: the results list returned by /classify follows the order of the    *)
(* submitted domain list, whatever the order in which the tasks complete   *)
(* and whichever domains were skipped.  It is stated for the runs in which *)
(* every record carries the submitted domain string it belongs to, so that *)
(* the records' domains tell their places in the submitted list.           *)
CarriesSubmittedDomains(r) ==
    /\ \A i \in 1..Len(r.domains_to_process) :
          r.outcomes[i] # NoneVal => r.outcomes[i].domain = r.domains_to_process[i]
    /\ \A k \in 1..Len(r.existing_results) :
          r.existing_results[k].domain = r.domains[r.skipped_idx[k]]

C10_ResponseInInputOrder ==
    (run.pc = "done" /\ run.entry = "classify" /\ CarriesSubmittedDomains(run))
    => InInputOrder(run.response.results, run.domains)

(***************************************************************************)
(* Properties of batches and of delete_batch.                              *)
(***************************************************************************)
IsDelete(c) == c.op = "delete_batch"

RowsOfBatch(rs, b) ==
    LET InBatch(r) == r.batch_id = b IN SelectSeq(rs, InBatch)

RowsNotOfBatch(rs, b) ==
    LET Other(r) == r.batch_id # b IN SelectSeq(rs, Other)

(* C14: once a batch record has status completed, no later insert_results  *)
(* call changes it: after the call the record is still there with the same *)
(* total_domains, config, started_at, completed_at and status.             *)
C14_CompletedBatchNotMutated ==
    [][ (call = NoCall /\ IsInsert(call'))
        => \A b \in DOMAIN batch_metadata :
              batch_metadata[b].status = "completed"
              => /\ b \in DOMAIN batch_metadata'
                 /\ batch_metadata'[b] = batch_metadata[b] ]_vars

(* C15: two batches begun in the same process receive distinct batch ids,  *)
(* also within one resolution window of the clock: the id that an          *)
(* insert_results call uses is not the id of a batch that the store        *)
(* already records, in a batch record or in a row.                         *)
C15_BatchIdsDistinct ==
    [][ (call = NoCall /\ IsInsert(call'))
        => /\ call'.batch_id \notin DOMAIN batch_metadata
           /\ RowsOfBatch(rows, call'.batch_id) = <<>> ]_vars

(* C17: delete_batch(b) removes every row whose batch_id is b and the      *)
(* batch record b, returns the number of rows removed, and leaves the rows *)
(* and the batch records of the other batches as they were.                *)
C17_DeleteBatchFrame ==
    [][ (call = NoCall /\ IsDelete(call'))
        => LET b == call'.batch_id
           IN  /\ RowsOfBatch(rows', b) = <<>>
               /\ b \notin DOMAIN batch_metadata'
               /\ call'.ret = Len(RowsOfBatch(rows, b))
               /\ rows' = RowsNotOfBatch(rows, b)
               /\ DOMAIN batch_metadata' = DOMAIN batch_metadata \ {b}
               /\ \A o \in DOMAIN batch_metadata' :
                     batch_metadata'[o] = batch_metadata[o] ]_vars

(* A delete_batch call that removed a row of its batch, while a row and    *)
(* the record of another batch are in the store.                           *)
C17_Witness ==
    /\ IsDelete(call)
    /\ call.ret >= 1
    /\ rows # <<>>
    /\ DOMAIN batch_metadata # {}
    /\ call.batch_id \notin DOMAIN batch_metadata

(***************************************************************************)
(* Properties of the pipelines under task failures.                        *)
(***************************************************************************)
(* What the run gave back: the response of /classify, or the list that the *)
(* CLI handed to write_results.                                            *)
Output(r) ==
    IF r.entry = "classify" THEN r.response.results ELSE r.final_ordered_results

FetchFailed(outcome) == outcome = NoneVal

(* The record that classify_site builds when its retries are exhausted. *)
ExhaustedRecord(domain) == Rec(domain, "Error", "failed")

Finished(r) == r.pc = "done" /\ r.domains_to_process # <<>>

BatchCompleted(b) ==
    b \in DOMAIN batch_metadata /\ batch_metadata[b].status = "completed"

(* C11: failure isolation.  In a run where the task of one domain failed   *)
(* and the task of another succeeded (with the record of the requested     *)
(* domain), the record of the succeeding domain is in the run's output,    *)
(* the store has a row for its domain, and the run's batch has status      *)
(* completed.                                                              *)
C11_FailureIsolation ==
    (Finished(run) /\ \E j \in 1..Len(run.outcomes) : FetchFailed(run.outcomes[j]))
    => \A i \in 1..Len(run.outcomes) :
          (Succeeded(run.outcomes[i])
              /\ run.outcomes[i].domain = run.domains_to_process[i])
          => /\ \E k \in 1..Len(Output(run)) : Output(run)[k] = run.outcomes[i]
             /\ DomainExists(Store, run.domains_to_process[i])
             /\ BatchCompleted(run.batch_id)

(* C12: when the store has a row for every submitted domain and overwrite  *)
(* is off, the /classify run dispatches no task, answers batch_id null and *)
(* total_processed 0, and writes neither a batch record nor a row.         *)
C12_AllStoredRunIsEmpty ==
    [][ ( /\ run = NoRun
          /\ run' # NoRun
          /\ run'.entry = "classify"
          /\ ~run'.overwrite
          /\ \A k \in 1..Len(run'.domains) : DomainExists(Store, run'.domains[k]) )
        => /\ run'.pc = "done"
           /\ run'.domains_to_process = <<>>
           /\ run'.response.batch_id = NoneVal
           /\ run'.response.total_processed = 0
           /\ rows' = rows
           /\ batch_metadata' = batch_metadata ]_vars

(* C13: a run in which every dispatched task failed, so that it produced   *)
(* no result, leaves no batch record with status completed under its batch *)
(* id.                                                                     *)
C13_NoBatchWithoutResults ==
    (Finished(run) /\ \A i \in 1..Len(run.outcomes) : FetchFailed(run.outcomes[i]))
    => ~BatchCompleted(run.batch_id)

(* C19: one failure policy per pipeline.  In a run that started on an      *)
(* empty store, the domains whose task ended in failure (the fetch failed, *)
(* or classify_site exhausted its retries) either all have an Error row of *)
(* the run's batch in the store, or none has.                              *)
TaskFailed(r, i) ==
    \/ FetchFailed(r.outcomes[i])
    \/ r.outcomes[i] = ExhaustedRecord(r.domains_to_process[i])

ContributedError(r, i) ==
    \E k \in 1..Len(rows) :
        /\ rows[k].batch_id = r.batch_id
        /\ rows[k].classification_label = "Error"
        /\ rows[k].domain = PyStrip(r.domains_to_process[i])

C19_OneFailurePolicy ==
    (Finished(run) /\ run.rows0 = <<>>)
    => \A i, j \in 1..Len(run.outcomes) :
          (TaskFailed(run, i) /\ TaskFailed(run, j))
          => (ContributedError(run, i) <=> ContributedError(run, j))

(***************************************************************************)
(* classify_site of src/src/openai_client.py.                              *)
(*                                                                         *)
(* A call of client.chat.completions.create either raises (a transport     *)
(* error) or answers with a message; the arguments string of its tool call *)
(* is parsed by json.loads into a value.  run is the call of classify_site *)
(* in progress: the attempts counter, the answers received so far, the     *)
(* backoff sleeps, and what the call gave back.  confidence_level is in    *)
(* tenths.                                                                 *)
(***************************************************************************)
max_retries == 2

required_fields == <<"domain", "classification_label", "summary", "confidence_level">>

JsonDict(v) == [type |-> "dict", value |-> v]

JsonInputs ==
    { [type |-> "invalid"], [type |-> "number", number |-> 42],
      [type |-> "list", items |-> required_fields] }
    \cup { JsonDict([domain |-> d, classification_label |-> l, summary |-> "s1",
                     confidence_level |-> 9]) :
             d \in ClassifierDomains \cup {<<"A">>}, l \in {"Marketing", "Error"} }
    \cup { JsonDict([domain |-> <<"A">>, classification_label |-> "Spam", summary |-> "s1",
                     confidence_level |-> 9]) }
    \cup { JsonDict([domain |-> d, classification_label |-> "Marketing", summary |-> "s1"]) :
             d \in ClassifierDomains }
    \cup { JsonDict([classification_label |-> "Marketing", summary |-> "s1",
                     confidence_level |-> 9]),
           JsonDict([domain |-> <<"A">>, summary |-> "s1", confidence_level |-> 9]),
           JsonDict([domain |-> <<"A">>, classification_label |-> "Marketing",
                     confidence_level |-> 9]) }

ClassifierResponses ==
    { [kind |-> "transport_error"], [kind |-> "no_tool_calls"],
      [kind |-> "wrong_function"] }
    \cup { [kind |-> "arguments", json |-> j] : j \in JsonInputs }

(* The classes of the exceptions that an attempt raises, with their bases. *)
Bases(exc) ==
    CASE exc = "JSONDecodeError" -> {"JSONDecodeError", "ValueError", "Exception"}
      [] exc = "ValueError" -> {"ValueError", "Exception"}
      [] exc = "TypeError" -> {"TypeError", "Exception"}
      [] exc = "APIError" -> {"APIError", "Exception"}

InJson_NoCheck(field, json) ==
    CASE json.type = "dict" -> TRUE
      [] json.type = "list" -> \E k \in 1..Len(json.items) : json.items[k] = field
      [] OTHER -> FALSE

(* field in result *)
InJson(field, json) ==
    CASE json.type = "dict" -> field \in DOMAIN json.value
      [] json.type = "list" -> \E k \in 1..Len(json.items) : json.items[k] = field
      [] OTHER -> FALSE

(* The body of the try block: the value returned, or the exception raised. *)
TryBody(response) ==
    CASE response.kind = "transport_error" -> [raises |-> "APIError"]
      [] response.kind \in {"no_tool_calls", "wrong_function"} -> [raises |-> "ValueError"]
      [] OTHER ->
           LET result == response.json
           IN  IF result.type = "invalid" THEN [raises |-> "JSONDecodeError"]
               ELSE IF result.type = "number" THEN [raises |-> "TypeError"]
               ELSE IF \E k \in 1..Len(required_fields) : ~InJson(required_fields[k], result)
                    THEN [raises |-> "ValueError"]
               ELSE IF result.type # "dict" THEN [raises |-> "TypeError"]
               ELSE [raises |-> "nothing", value |-> result.value]

(* The except clause that handles the exception, in the order of the code. *)
ExceptClauses_ValueErrorOnly == <<"JSONDecodeError", "ValueError">>

ExceptClauses == <<"JSONDecodeError", "Exception">>

Handler(exc) ==
    IF ExceptClauses[1] \in Bases(exc) THEN 1
    ELSE IF ExceptClauses[2] \in Bases(exc) THEN 2
    ELSE 0

(* attempts += 1, in both except clauses. *)
NextAttempts_JsonGivesUp(attempts, clause) ==
    IF clause = 1 THEN max_retries ELSE attempts + 1

NextAttempts(attempts, clause) == attempts + 1

RECURSIVE Pow2(_)
Pow2(n) == IF n = 0 THEN 1 ELSE 2 * Pow2(n - 1)

ErrorClassification(domain) ==
    [domain |-> domain, classification_label |-> "Error", summary |-> "failed",
     confidence_level |-> 0]

classify_site ==
    /\ run = NoRun
    /\ \E domain \in PipelineDomains :
        run' = [ entry |-> "classify_site", pc |-> "cs_loop", domain |-> domain,
                 attempts |-> 0, responses |-> <<>>, sleeps |-> <<>> ]
    /\ UNCHANGED <<rows, seq, batch_metadata, now, call, csv_file, prev>>

(* One pass of the while loop: the call, the try block, the except clause, *)
(* and the return after the loop when the retries are exhausted.           *)
classify_site_attempt ==
    /\ run.pc = "cs_loop"
    /\ run.attempts < max_retries
    /\ \E response \in ClassifierResponses :
        LET out == TryBody(response)
            clause == Handler(out.raises)
            attempts == NextAttempts(run.attempts, clause)
            r == [run EXCEPT !.responses = Append(@, response)]
        IN  run' = IF out.raises = "nothing"
                   THEN [r EXCEPT !.pc = "cs_returned"] @@ [ret |-> out.value]
                   ELSE IF clause = 0
                   THEN [r EXCEPT !.pc = "cs_raised"] @@ [ret |-> out.raises]
                   ELSE LET s == [r EXCEPT !.attempts = attempts,
                                           !.sleeps = IF clause = 2 /\ attempts < max_retries
                                                      THEN Append(@, Pow2(attempts)) ELSE @]
                        IN  IF attempts < max_retries THEN s
                            ELSE [s EXCEPT !.pc = "cs_returned"] @@
                                 [ret |-> ErrorClassification(run.domain)]
    /\ UNCHANGED <<rows, seq, batch_metadata, now, call, csv_file, prev>>

classify_site_return ==
    /\ run.pc \in {"cs_returned", "cs_raised"}
    /\ run' = NoRun
    /\ UNCHANGED <<rows, seq, batch_metadata, now, call, csv_file, prev>>

NextClassifier == classify_site \/ classify_site_attempt \/ classify_site_return

SpecClassifier == Init /\ [][NextClassifier]_vars

(***************************************************************************)
(* Properties of classify_site.                                            *)
(***************************************************************************)
InClassifySite(r) == r.pc \in {"cs_loop", "cs_returned", "cs_raised"}

(* A response that is not a structured object with the required fields. *)
Malformed(response) ==
    ~ /\ response.kind = "arguments"
      /\ response.json.type = "dict"
      /\ \A k \in 1..Len(required_fields) : required_fields[k] \in DOMAIN response.json.value

(* C18: when every call of the classifier fails or answers with malformed  *)
(* output, classify_site calls it exactly twice: it has not returned after *)
(* one call and it makes no third call.                                    *)
C18_ExactlyTwoAttempts ==
    (InClassifySite(run) /\ \A k \in 1..Len(run.responses) : Malformed(run.responses[k]))
    => /\ Len(run.responses) <= 2
       /\ run.pc # "cs_loop" => Len(run.responses) = 2
       /\ (run.pc = "cs_loop") = (Len(run.responses) < 2)

(* classify_site has returned after an unparsable answer and an answer     *)
(* that is a JSON list.                                                    *)
C18_Witness ==
    /\ run.pc = "cs_returned"
    /\ Len(run.responses) = 2
    /\ run.responses[1] = [kind |-> "arguments", json |-> [type |-> "invalid"]]
    /\ run.responses[2].kind = "arguments" /\ run.responses[2].json.type = "list"

(* C20: whatever transport errors and malformed responses occur,           *)
(* classify_site does not raise: it returns a response of the classifier   *)
(* that has the required fields, or, after the retry bound, the record     *)
(* with label Error and confidence 0.0 for the requested domain.           *)
C20_NeverRaises ==
    InClassifySite(run)
    => /\ run.pc # "cs_raised"
       /\ run.pc = "cs_returned"
          => \/ /\ ~Malformed(run.responses[Len(run.responses)])
                /\ run.ret = run.responses[Len(run.responses)].json.value
             \/ /\ Len(run.responses) = max_retries
                /\ \A k \in 1..Len(run.responses) : Malformed(run.responses[k])
                /\ run.ret.domain = run.domain
                /\ run.ret.classification_label = "Error"
                /\ run.ret.confidence_level = 0

(* classify_site has returned the Error record after a transport error and *)
(* an answer whose JSON is a number.                                       *)
C20_Witness ==
    /\ run.pc = "cs_returned"
    /\ run.ret = ErrorClassification(run.domain)
    /\ run.responses[1].kind = "transport_error"
    /\ run.responses[2].kind = "arguments" /\ run.responses[2].json.type = "number"

(***************************************************************************)
(* insert_results, statement by statement.                                 *)
(*                                                                         *)
(* insert_results runs all its statements on one connection, inside        *)
(* "with sqlite3.connect(...) as conn": the first INSERT opens a           *)
(* transaction, conn.commit() ends it, and an exception leaves the block   *)
(* with a rollback.  rows, seq and batch_metadata are the database as the  *)
(* other connections read it; call.working is the database as the writing  *)
(* connection sees it.                                                     *)
(***************************************************************************)
ProcessingRecord(results, config, t) ==
    [ BatchRecord(results, config, t) EXCEPT !.completed_at = -1,
                                             !.status = "processing" ]

View(working) ==
    [ rows |-> working.st.rows, seq |-> working.st.seq,
      batch_metadata |-> working.batch_metadata ]

(* What the other connections read while the transaction is open. *)
Published_ReadUncommitted(committed, working) == View(working)

Published(committed, working) == committed

txn_begin ==
    /\ call = NoCall
    /\ \E results \in ResultLists, config \in ConfigInputs, overwrite \in BOOLEAN :
        LET batch_id == GeneratedBatchId(now)
            working ==
                [ st |-> [ rows |-> rows, seq |-> seq, inserted_count |-> 0,
                           updated_count |-> 0, skipped_count |-> 0 ],
                  batch_metadata |->
                      IF config # NoneVal
                      THEN PutBatch(batch_metadata, batch_id,
                                    ProcessingRecord(results, config, now))
                      ELSE batch_metadata ]
            v == Published(Store, working)
        IN  /\ InsertResults(Store, results, NoneVal, config, overwrite, now).seq <= MaxId
            /\ call' = [ op |-> "txn", stage |-> "loop", results |-> results,
                         remaining |-> results, config |-> config,
                         overwrite |-> overwrite, batch_id |-> batch_id, t |-> now,
                         before |-> Store, working |-> working ]
            /\ rows' = v.rows
            /\ seq' = v.seq
            /\ batch_metadata' = v.batch_metadata
    /\ UNCHANGED <<now, run, csv_file, prev>>

(* One pass of the for loop: the SELECT, the DELETE, the INSERT. *)
txn_statement ==
    /\ call.op = "txn" /\ call.stage = "loop" /\ call.remaining # <<>>
    /\ LET working == [call.working EXCEPT
                          !.st = InsertOne(@, Head(call.remaining), call.batch_id,
                                           call.overwrite, call.t)]
           v == Published(Store, working)
       IN  /\ call' = [call EXCEPT !.remaining = Tail(@), !.working = working]
           /\ rows' = v.rows
           /\ seq' = v.seq
           /\ batch_metadata' = v.batch_metadata
    /\ UNCHANGED <<now, run, csv_file, prev>>

(* UPDATE batch_metadata SET completed_at = ?, status = 'completed' *)
txn_update_status ==
    /\ call.op = "txn" /\ call.stage = "loop" /\ call.remaining = <<>>
    /\ LET working == IF call.config # NoneVal
                      THEN [call.working EXCEPT
                               !.batch_metadata[call.batch_id].completed_at = call.t,
                               !.batch_metadata[call.batch_id].status = "completed"]
                      ELSE call.working
           v == Published(Store, working)
       IN  /\ call' = [call EXCEPT !.stage = "updated", !.working = working]
           /\ rows' = v.rows
           /\ seq' = v.seq
           /\ batch_metadata' = v.batch_metadata
    /\ UNCHANGED <<now, run, csv_file, prev>>

(* conn.commit() *)
txn_commit ==
    /\ call.op = "txn" /\ call.stage = "updated"
    /\ rows' = call.working.st.rows
    /\ seq' = call.working.st.seq
    /\ batch_metadata' = call.working.batch_metadata
    /\ call' = [call EXCEPT !.stage = "committed"]
    /\ UNCHANGED <<now, run, csv_file, prev>>

(* A connection in autocommit mode: what the statements wrote stays. *)
txn_rollback_Autocommit ==
    /\ call.op = "txn" /\ call.stage \in {"loop", "updated"}
    /\ call' = [call EXCEPT !.stage = "rolled_back"]
    /\ rows' = call.working.st.rows
    /\ seq' = call.working.st.seq
    /\ batch_metadata' = call.working.batch_metadata
    /\ UNCHANGED <<now, run, csv_file, prev>>

(* An exception inside the with block: the connection rolls back, and the  *)
(* exception leaves insert_results.                                        *)
txn_rollback ==
    /\ call.op = "txn" /\ call.stage \in {"loop", "updated"}
    /\ call' = [call EXCEPT !.stage = "rolled_back"]
    /\ rows' = call.before.rows
    /\ seq' = call.before.seq
    /\ batch_metadata' = call.before.batch_metadata
    /\ UNCHANGED <<now, run, csv_file, prev>>

txn_return ==
    /\ call.op = "txn" /\ call.stage \in {"committed", "rolled_back"}
    /\ call' = NoCall
    /\ UNCHANGED <<rows, seq, batch_metadata, now, run, csv_file, prev>>

NextTxn ==
    \/ txn_begin \/ txn_statement \/ txn_update_status \/ txn_commit
    \/ txn_rollback \/ txn_return \/ Tick

SpecTxn == Init /\ [][NextTxn]_vars

(***************************************************************************)
(* Properties of the insert_results transaction.                           *)
(***************************************************************************)
InTxn(c) == c.op = "txn"

(* C16: the batch record with status completed and the rows that the call  *)
(* inserted become observable together.  No reader sees a batch record     *)
(* with status processing; while the call has not committed, a reader sees *)
(* the store as it was before the call, without its rows and its record;   *)
(* once it has committed, a reader sees all of its rows and, when the call *)
(* has a config, its batch record with status completed.                   *)
C16_BatchAndRowsTogether ==
    /\ \A b \in DOMAIN batch_metadata : batch_metadata[b].status = "completed"
    /\ InTxn(call)
       => IF call.stage = "committed"
          THEN LET after == InsertResults(call.before, call.results, NoneVal,
                                          call.config, call.overwrite, call.t)
               IN  /\ rows = after.rows
                   /\ batch_metadata = after.batch_metadata
                   /\ call.config # NoneVal => BatchCompleted(call.batch_id)
          ELSE Store = call.before

(* An open transaction that has written its batch record and a row, which  *)
(* no reader sees yet.                                                     *)
C16_Witness ==
    /\ InTxn(call)
    /\ call.stage = "loop"
    /\ call.config # NoneVal
    /\ call.working.batch_metadata[call.batch_id].status = "processing"
    /\ Len(call.working.st.rows) > Len(rows)
    /\ call.batch_id \notin DOMAIN batch_metadata

(***************************************************************************)
(* Properties of classify_site: required fields and backoff.               *)
(***************************************************************************)
RequiredFieldNames == {"domain", "classification_label", "summary", "confidence_level"}

(* The answer is a JSON object that lacks one of the required fields. *)
LacksField(response) ==
    /\ response.kind = "arguments"
    /\ response.json.type = "dict"
    /\ RequiredFieldNames \ DOMAIN response.json.value # {}

(* C21: a classifier response that lacks one of the fields domain,         *)
(* classification_label, summary, confidence_level is never returned by    *)
(* classify_site: it counts as one failed attempt, after which             *)
(* classify_site calls again or, at the retry bound, returns the Error     *)
(* record.                                                                 *)
C21_MissingFieldRejected ==
    InClassifySite(run)
    => \A k \in 1..Len(run.responses) :
          LacksField(run.responses[k])
          => /\ run.attempts >= k
             /\ run.pc = "cs_returned" => run.ret # run.responses[k].json.value
             /\ k < max_retries => (run.pc = "cs_loop" \/ Len(run.responses) > k)
             /\ k = max_retries
                => (run.pc = "cs_returned" /\ run.ret = ErrorClassification(run.domain))

(* classify_site has returned the Error record after an answer without     *)
(* domain and an answer without confidence_level.                          *)
C21_Witness ==
    /\ run.pc = "cs_returned"
    /\ Len(run.responses) = 2
    /\ LacksField(run.responses[1]) /\ "domain" \notin DOMAIN run.responses[1].json.value
    /\ LacksField(run.responses[2])
    /\ "confidence_level" \notin DOMAIN run.responses[2].json.value
    /\ run.ret = ErrorClassification(run.domain)

(* C22: between two consecutive attempts classify_site sleeps for the      *)
(* exponential backoff delay (2^attempts seconds), whatever failure ended  *)
(* the earlier attempt, and it does not sleep after the final attempt.     *)
C22_BackoffBetweenAttempts ==
    InClassifySite(run)
    => LET failed == run.attempts
           between == IF failed < max_retries THEN failed ELSE max_retries - 1
       IN  /\ Len(run.sleeps) = between
           /\ \A k \in 1..Len(run.sleeps) : run.sleeps[k] = Pow2(k)

(***************************************************************************)
(* Properties of the pipelines under storage failures.                     *)
(***************************************************************************)
(* C23: a storage failure is not swallowed.  When insert_results raised    *)
(* while the run's results were persisted, the run does not end with a     *)
(* success response that carries a batch id.                               *)
C23_StorageFailureNotSwallowed ==
    (run.pc = "done" /\ run.entry = "classify" /\ StoreFailed(run))
    => run.response.batch_id = NoneVal

(***************************************************************************)
(* The worker pool of the pipelines: "with ThreadPoolExecutor(max_workers= *)
(* workers) as executor", one executor.submit per entry of                 *)
(* domains_to_process, in order.  submit queues the work item and starts a *)
(* thread when no thread is free and fewer than max_workers exist; a       *)
(* thread runs one item at a time and takes the next from the queue.       *)
(* run.started counts, per entry, how often its task was started.          *)
(***************************************************************************)
WorkerCounts == 1..MaxDomains

AdjustThreadCount_Unbounded(threads, max_workers, free, queued) ==
    IF free >= queued THEN threads ELSE threads + 1

AdjustThreadCount(threads, max_workers, free, queued) ==
    IF free >= queued THEN threads
    ELSE IF threads < max_workers THEN threads + 1
    ELSE threads

pool_open ==
    /\ run = NoRun
    /\ \E domains_to_process \in DomainLists, workers \in WorkerCounts :
        run' = [ entry |-> "pool", pc |-> "pool_submit", workers |-> workers,
                 domains_to_process |-> domains_to_process, next |-> 1,
                 queue |-> <<>>, threads |-> 0, running |-> {}, finished |-> {},
                 started |-> [i \in 1..Len(domains_to_process) |-> 0] ]
    /\ UNCHANGED <<rows, seq, batch_metadata, now, call, csv_file, prev>>

(* executor.submit(process_domain, domain, ...) for the next entry. *)
pool_submit ==
    /\ run.pc = "pool_submit"
    /\ run.next <= Len(run.domains_to_process)
    /\ run' = [run EXCEPT
                 !.queue = Append(@, run.next),
                 !.next = @ + 1,
                 !.threads = AdjustThreadCount(@, run.workers,
                                               @ - Cardinality(run.running),
                                               Len(run.queue) + 1)]
    /\ UNCHANGED <<rows, seq, batch_metadata, now, call, csv_file, prev>>

(* A free thread takes the oldest work item and starts process_domain. *)
pool_start ==
    /\ run.pc = "pool_submit"
    /\ run.queue # <<>>
    /\ Cardinality(run.running) < run.threads
    /\ run' = [run EXCEPT !.queue = Tail(@),
                          !.running = @ \cup {Head(run.queue)},
                          !.started[Head(run.queue)] = @ + 1]
    /\ UNCHANGED <<rows, seq, batch_metadata, now, call, csv_file, prev>>

(* process_domain returns in some thread. *)
pool_finish ==
    /\ run.pc = "pool_submit"
    /\ \E i \in run.running :
        run' = [run EXCEPT !.running = @ \ {i}, !.finished = @ \cup {i}]
    /\ UNCHANGED <<rows, seq, batch_metadata, now, call, csv_file, prev>>

(* The as_completed loop has seen every future and the with block ends. *)
pool_close ==
    /\ run.pc = "pool_submit"
    /\ run.next > Len(run.domains_to_process)
    /\ run.finished = 1..Len(run.domains_to_process)
    /\ run' = [run EXCEPT !.pc = "pool_done"]
    /\ UNCHANGED <<rows, seq, batch_metadata, now, call, csv_file, prev>>

pool_return ==
    /\ run.pc = "pool_done"
    /\ run' = NoRun
    /\ UNCHANGED <<rows, seq, batch_metadata, now, call, csv_file, prev>>

NextPool ==
    \/ pool_open \/ pool_submit \/ pool_start \/ pool_finish
    \/ pool_close \/ pool_return

SpecPool == Init /\ [][NextPool]_vars

(***************************************************************************)
(* Properties of the worker pool.                                          *)
(***************************************************************************)
InPool(r) == r.pc \in {"pool_submit", "pool_done"}

(* C24: at every moment of a run at most workers domain tasks execute, and *)
(* every entry of domains_to_process is dispatched exactly once: no task   *)
(* is started twice, and when the pool closes each has been started.       *)
C24_BoundedPoolDispatchOnce ==
    InPool(run)
    => /\ Cardinality(run.running) <= run.workers
       /\ \A i \in 1..Len(run.domains_to_process) :
             /\ run.started[i] <= 1
             /\ run.pc = "pool_done" => run.started[i] = 1
             /\ i \in run.running \cup run.finished => run.started[i] = 1

(* With one worker and two entries, the first task runs while the second   *)
(* waits in the queue.                                                     *)
C24_Witness ==
    /\ InPool(run)
    /\ run.workers = 1
    /\ Len(run.domains_to_process) = 2
    /\ run.running = {1}
    /\ run.queue = <<2>>

(***************************************************************************)
(* extract_snippet of run_CLI_pipeline.py (streamlit_app.py has the same   *)
(* function).  Positions are Python's: the first character is at 0, and    *)
(* rfind gives -1 when there is no space.                                  *)
(***************************************************************************)
MaxText == 8

MaxLengths == {5, 10}

RECURSIVE Strings(_, _)
Strings(chars, n) ==
    IF n = 0 THEN { <<>> }
    ELSE LET shorter == Strings(chars, n - 1)
         IN  shorter \cup { Append(s, c) : s \in shorter, c \in chars }

TextInputs == Strings({"x", " "}, MaxText)

OcrInputs == Strings({"x", "\t"}, 3)

NoContentAvailable == <<"No content available">>

Ellipsis == <<".", ".", ".">>

(* ' '.join(s.split()) for a stripped s: every run of whitespace becomes   *)
(* one space.                                                              *)
RECURSIVE JoinSplit(_)
JoinSplit(s) ==
    IF s = <<>> THEN <<>>
    ELSE IF Head(s) \in PyWhitespace
         THEN <<" ">> \o JoinSplit(LStrip(s, PyWhitespace))
         ELSE <<Head(s)>> \o JoinSplit(Tail(s))

(* str.rfind(' ') *)
RFindSpace(s) ==
    LET at == { p \in 1..Len(s) : s[p] = " " }
    IN  IF at = {} THEN -1 ELSE (CHOOSE p \in at : \A q \in at : q <= p) - 1

(* s[:n] *)
Prefix(s, n) == SubSeq(s, 1, IF n < Len(s) THEN n ELSE Len(s))

(* last_space > max_length * 0.8 *)
NearEnd(last_space, max_length) == last_space * 10 > max_length * 8

ExtractSnippet_StrictlyShorter(text_content, ocr_content, max_length) ==
    LET combined_text == PyStrip(text_content \o <<" ">> \o ocr_content)
        cleaned_text == JoinSplit(combined_text)
        snippet == Prefix(cleaned_text, max_length)
        last_space == RFindSpace(snippet)
    IN  IF combined_text = <<>> THEN NoContentAvailable
        ELSE IF Len(cleaned_text) < max_length THEN cleaned_text
        ELSE IF NearEnd(last_space, max_length)
             THEN Prefix(snippet, last_space) \o Ellipsis
             ELSE snippet \o Ellipsis

ExtractSnippet(text_content, ocr_content, max_length) ==
    LET combined_text == PyStrip(text_content \o <<" ">> \o ocr_content)
        cleaned_text == JoinSplit(combined_text)
        snippet == Prefix(cleaned_text, max_length)
        last_space == RFindSpace(snippet)
    IN  IF combined_text = <<>> THEN NoContentAvailable
        ELSE IF Len(cleaned_text) <= max_length THEN cleaned_text
        ELSE IF NearEnd(last_space, max_length)
             THEN Prefix(snippet, last_space) \o Ellipsis
             ELSE snippet \o Ellipsis

extract_snippet ==
    /\ call = NoCall
    /\ \E text_content \in TextInputs, ocr_content \in OcrInputs,
          max_length \in MaxLengths :
        call' = [ op |-> "extract_snippet", text_content |-> text_content,
                  ocr_content |-> ocr_content, max_length |-> max_length,
                  ret |-> ExtractSnippet(text_content, ocr_content, max_length) ]
    /\ UNCHANGED <<rows, seq, batch_metadata, now, run, csv_file, prev>>

NextSnippet == extract_snippet \/ Return

SpecSnippet == Init /\ [][NextSnippet]_vars

(***************************************************************************)
(* Properties of extract_snippet.                                          *)
(***************************************************************************)
IsSnippet(c) == c.op = "extract_snippet"

IsWhitespace(c) == c \in {" ", "\t"}

(* The combined text with its whitespace collapsed, as the claims name it. *)
Cleaned(c) == JoinSplit(PyStrip(c.text_content \o <<" ">> \o c.ocr_content))

AllWhitespace(s) == \A p \in 1..Len(s) : IsWhitespace(s[p])

(* C25: for cleaned text longer than max_length, when the last space among *)
(* the first max_length characters is at a position >= 0.8 * max_length    *)
(* (equal included), the snippet is the prefix up to that space plus the   *)
(* ellipsis; otherwise it is the first max_length characters plus the      *)
(* ellipsis.                                                               *)
C25_TruncationThreshold ==
    (IsSnippet(call) /\ Len(Cleaned(call)) > call.max_length)
    => LET prefix == SubSeq(Cleaned(call), 1, call.max_length)
           last_space == RFindSpace(prefix)
       IN  IF last_space >= 0 /\ last_space * 10 >= call.max_length * 8
           THEN call.ret = SubSeq(prefix, 1, last_space) \o Ellipsis
           ELSE call.ret = prefix \o Ellipsis

DuplicateList == << <<"A">>, <<"a", "b">>, <<"A">> >>

classify_duplicates ==
    /\ run = NoRun
    /\ \E p \in FlaskPartitions(Store, DuplicateList, 1) :
        LET r == NewRun("classify", DuplicateList, FALSE, NoneVal, p, Store)
        IN  run' = IF p.domains_to_process = <<>>
                   THEN r @@ [pc |-> "done", batch_id |-> NoneVal,
                              results |-> <<>>, results_idx |-> <<>>,
                              response |-> FlaskResponse(r, <<>>)]
                   ELSE r @@ [pc |-> "running", batch_id |-> FlaskBatchId(now),
                              results |-> <<>>, results_idx |-> <<>>]
    /\ UNCHANGED <<rows, seq, batch_metadata, now, call, csv_file, prev>>

NextDuplicates ==
    \/ classify_duplicates \/ classify_future_done \/ classify_store
    \/ classify_store_raises \/ run_return \/ Tick

SpecDuplicates == Init /\ [][NextDuplicates]_vars

(* The request before this one dispatched and classified every domain of   *)
(* the list; every stored row matches the list's first domain filter, so   *)
(* that request found the store empty.                                     *)
SecondSubmission ==
    /\ run.pc = "done"
    /\ run.domains = DuplicateList
    /\ prev.pc = "succeeded"
    /\ prev.domains = DuplicateList

StoredDomains == { NormalizedDomain(rows[i].domain) : i \in 1..Len(rows) }

(* C27: submitting a list with one domain twice to an empty store without  *)
(* a config, every domain being classified, and submitting it again,       *)
(* leaves exactly two rows, one for each distinct domain.                  *)
C27_DuplicateInputTwoRows ==
    SecondSubmission
    => /\ Len(rows) = 2
       /\ StoredDomains = { NormalizedDomain(DuplicateList[k]) : k \in 1..3 }
       /\ Cardinality(StoredDomains) = 2

(* The second submission returned with all three domains skipped.          *)
C27_Witness ==
    /\ SecondSubmission
    /\ run.response.skipped = 3
    /\ run.response.total_processed = 0
    /\ Len(rows) = 2

(***************************************************************************)
(* The management tool and the query interface on the store.               *)
(*                                                                         *)
(* clear_database of manage_database.py asks for confirmation unless       *)
(* --force is given and then calls db.clear_all_data().  The class         *)
(* ClassificationDatabase defines no method of that name: the call raises  *)
(* AttributeError, which the function's except clause catches and prints.  *)
(***************************************************************************)
clear_database ==
    /\ call = NoCall
    /\ \E confirmed \in BOOLEAN :
        call' = [ op |-> "clear_database", confirmed |-> confirmed,
                  printed |-> IF confirmed THEN "Error clearing database"
                                           ELSE "Operation cancelled." ]
    /\ UNCHANGED <<rows, seq, batch_metadata, now, run, csv_file, prev>>

(* ClassificationDatabase.get_results without limit: the rows that the     *)
(* WHERE clause selects.  A filter that is None or empty adds no condition. *)
(* min_confidence is left at None.                                         *)
DomainFilters == { NoneVal, <<"a">>, <<"_">>, <<"é">> }

LabelFilters == { "", "Marketing", "Portal" }

GetResults(store, domain_filter, label_filter, batch_id) ==
    { store.rows[i] : i \in
        { j \in 1..Len(store.rows) :
            /\ DomainFilterMatches(store.rows[j], domain_filter)
            /\ label_filter # "" => store.rows[j].classification_label = label_filter
            /\ batch_id # NoneVal => store.rows[j].batch_id = batch_id } }

get_results ==
    /\ call = NoCall
    /\ \E domain_filter \in DomainFilters, label_filter \in LabelFilters,
          batch_id \in {NoneVal} \cup BatchIds :
        call' = [ op |-> "get_results", domain_filter |-> domain_filter,
                  label_filter |-> label_filter, batch_id |-> batch_id,
                  ret |-> GetResults(Store, domain_filter, label_filter, batch_id) ]
    /\ UNCHANGED <<rows, seq, batch_metadata, now, run, csv_file, prev>>

NextAdmin == insert_results \/ get_results \/ clear_database \/ Return \/ Tick

SpecAdmin == Init /\ [][NextAdmin]_vars

(* C28: after the management tool's clear-all has run (confirmed or        *)
(* forced), the store has no result row and no batch record.               *)
C28_ClearAllEmptiesStore ==
    (call.op = "clear_database" /\ call.confirmed)
    => (rows = <<>> /\ DOMAIN batch_metadata = {})

(* text contains sub as a literal substring, compared without case.        *)
ContainsIgnoringCase(text, sub) ==
    \E k \in 0..(Len(text) - Len(sub)) :
        PyLower(SubSeq(text, k + 1, k + Len(sub))) = PyLower(sub)

(* C29: get_results returns exactly the rows that satisfy every supplied   *)
(* filter, the domain filter being satisfied exactly by the rows whose     *)
(* domain contains the filter string, case ignored, as a literal           *)
(* substring.                                                              *)
C29_FiltersConjoinedLiteralSubstring ==
    call.op = "get_results"
    => call.ret =
         { rows[i] : i \in
            { j \in 1..Len(rows) :
                /\ call.domain_filter # NoneVal
                   => ContainsIgnoringCase(rows[j].domain, call.domain_filter)
                /\ call.label_filter # ""
                   => rows[j].classification_label = call.label_filter
                /\ call.batch_id # NoneVal => rows[j].batch_id = call.batch_id } }

(***************************************************************************)
(* Two insert_results calls on the same database file, statement by        *)
(* statement.  call.w holds the two connections and call.lock the          *)
(* connection that holds SQLite's write lock (0: nobody).                  *)
(*                                                                         *)
(* Python's sqlite3 opens a transaction before the first INSERT, UPDATE,   *)
(* DELETE or REPLACE of a connection, not before a SELECT.  From then on   *)
(* the connection holds the write lock and works on its own copy of the    *)
(* database until it commits; a SELECT outside a transaction reads what    *)
(* has been committed.  A statement that needs the lock while the other    *)
(* connection holds it waits, and fails with "database is locked" when the *)
(* wait times out.                                                         *)
(***************************************************************************)
Writers == {1, 2}

Other(w) == 3 - w

RaceResults ==
    { Rec(<<"A">>, "Marketing", "s1"), Rec(<<"a", " ">>, "Portal", "s2"),
      Rec(<<"a", "b">>, "Marketing", "s1") }

RaceResultLists == UNION { [1..n -> RaceResults] : n \in 1..MaxRecs }

EmptyStore == [ rows |-> <<>>, seq |-> 0, batch_metadata |-> << >> ]

IdleWriter ==
    [ pc |-> "idle", results |-> <<>>, remaining |-> <<>>, config |-> NoneVal,
      overwrite |-> FALSE, batch_id |-> NoneVal, t |-> 0,
      open |-> FALSE, working |-> EmptyStore ]

Active(wr) == wr.pc \notin {"idle", "done", "failed"}

(* What connection w reads. *)
ViewOf(w) == IF call.w[w].open THEN call.w[w].working ELSE Store

CanLock(w) == call.lock \in {0, w}

(* The connection's copy of the database once it holds the lock. *)
Locked(w) == IF call.w[w].open THEN call.w[w].working ELSE Store

race_enter(w) ==
    /\ call = NoCall \/ (call.op = "race" /\ call.w[w].pc = "idle")
    /\ \E results \in RaceResultLists, config \in ConfigInputs, overwrite \in BOOLEAN :
        LET c == IF call = NoCall
                 THEN [ op |-> "race", lock |-> 0, before |-> Store,
                        w |-> <<IdleWriter, IdleWriter>> ]
                 ELSE call
            pending == IF Active(c.w[Other(w)]) THEN Len(c.w[Other(w)].remaining) ELSE 0
        IN  /\ seq + pending + Len(results) <= MaxId
            /\ call' = [c EXCEPT !.w[w] =
                          [ pc |-> "batch", results |-> results, remaining |-> results,
                            config |-> config, overwrite |-> overwrite,
                            batch_id |-> GeneratedBatchId(now), t |-> now,
                            open |-> FALSE, working |-> EmptyStore ]]
    /\ UNCHANGED <<rows, seq, batch_metadata, now, run, csv_file, prev>>

(* if config: INSERT OR REPLACE INTO batch_metadata ... 'processing' *)
race_batch(w) ==
    /\ call.op = "race" /\ call.w[w].pc = "batch"
    /\ LET wr == call.w[w]
       IN  IF wr.config # NoneVal
           THEN /\ CanLock(w)
                /\ call' = [call EXCEPT
                     !.lock = w,
                     !.w[w].open = TRUE,
                     !.w[w].working =
                         [Locked(w) EXCEPT !.batch_metadata =
                             PutBatch(@, wr.batch_id,
                                      ProcessingRecord(wr.results, wr.config, wr.t))],
                     !.w[w].pc = "select"]
           ELSE call' = [call EXCEPT !.w[w].pc = "select"]
    /\ UNCHANGED <<rows, seq, batch_metadata, now, run, csv_file, prev>>

(* The head of the for loop and the SELECT of the existence check. *)
race_select(w) ==
    /\ call.op = "race" /\ call.w[w].pc = "select"
    /\ LET wr == call.w[w]
       IN  IF wr.remaining = <<>>
           THEN call' = [call EXCEPT !.w[w].pc = "update"]
           ELSE LET domain == NormalizedDomain(Head(wr.remaining).domain)
                    view == ViewOf(w).rows
                    existing_record ==
                        \E i \in 1..Len(view) : MatchesDomain(view[i], domain)
                IN  IF domain = <<>> \/ (existing_record /\ ~wr.overwrite)
                    THEN call' = [call EXCEPT !.w[w].remaining = Tail(@)]
                    ELSE call' = [call EXCEPT !.w[w].pc =
                                     IF existing_record THEN "delete" ELSE "insert"]
    /\ UNCHANGED <<rows, seq, batch_metadata, now, run, csv_file, prev>>

(* DELETE FROM classification_results WHERE LOWER(TRIM(domain)) = ? *)
race_delete(w) ==
    /\ call.op = "race" /\ call.w[w].pc = "delete"
    /\ CanLock(w)
    /\ LET wr == call.w[w]
           domain == NormalizedDomain(Head(wr.remaining).domain)
           Keep(r) == ~MatchesDomain(r, domain)
       IN  call' = [call EXCEPT
                !.lock = w,
                !.w[w].open = TRUE,
                !.w[w].working = [Locked(w) EXCEPT !.rows = SelectSeq(@, Keep)],
                !.w[w].pc = "insert"]
    /\ UNCHANGED <<rows, seq, batch_metadata, now, run, csv_file, prev>>

(* INSERT INTO classification_results ... *)
race_insert(w) ==
    /\ call.op = "race" /\ call.w[w].pc = "insert"
    /\ CanLock(w)
    /\ LET wr == call.w[w]
           db == Locked(w)
       IN  call' = [call EXCEPT
                !.lock = w,
                !.w[w].open = TRUE,
                !.w[w].working =
                    [db EXCEPT !.rows = Append(@, NewRow(db.seq + 1, Head(wr.remaining),
                                                         wr.batch_id, wr.t)),
                               !.seq = @ + 1],
                !.w[w].remaining = Tail(@),
                !.w[w].pc = "select"]
    /\ UNCHANGED <<rows, seq, batch_metadata, now, run, csv_file, prev>>

(* if config: UPDATE batch_metadata SET completed_at = ?, status = 'completed' *)
race_update(w) ==
    /\ call.op = "race" /\ call.w[w].pc = "update"
    /\ LET wr == call.w[w]
       IN  IF wr.config # NoneVal
           THEN call' = [call EXCEPT
                    !.w[w].working.batch_metadata[wr.batch_id].completed_at = wr.t,
                    !.w[w].working.batch_metadata[wr.batch_id].status = "completed",
                    !.w[w].pc = "commit"]
           ELSE call' = [call EXCEPT !.w[w].pc = "commit"]
    /\ UNCHANGED <<rows, seq, batch_metadata, now, run, csv_file, prev>>

(* conn.commit() *)
race_commit(w) ==
    /\ call.op = "race" /\ call.w[w].pc = "commit"
    /\ LET wr == call.w[w]
           out == IF wr.open THEN wr.working ELSE Store
       IN  /\ rows' = out.rows
           /\ seq' = out.seq
           /\ batch_metadata' = out.batch_metadata
           /\ call' = [call EXCEPT !.lock = IF wr.open THEN 0 ELSE @,
                                   !.w[w].open = FALSE,
                                   !.w[w].working = EmptyStore,
                                   !.w[w].pc = "done"]
    /\ UNCHANGED <<now, run, csv_file, prev>>

(* The wait for the lock times out: sqlite3.OperationalError leaves        *)
(* insert_results, with nothing of the call written.                       *)
race_locked(w) ==
    /\ call.op = "race"
    /\ \/ call.w[w].pc \in {"delete", "insert"}
       \/ call.w[w].pc = "batch" /\ call.w[w].config # NoneVal
    /\ call.lock = Other(w)
    /\ call' = [call EXCEPT !.w[w].pc = "failed"]
    /\ UNCHANGED <<rows, seq, batch_metadata, now, run, csv_file, prev>>

race_return ==
    /\ call.op = "race"
    /\ \A w \in Writers : ~Active(call.w[w])
    /\ call' = NoCall
    /\ UNCHANGED <<rows, seq, batch_metadata, now, run, csv_file, prev>>

NextRace ==
    \/ \E w \in Writers :
          \/ race_enter(w) \/ race_batch(w) \/ race_select(w) \/ race_delete(w)
          \/ race_insert(w) \/ race_update(w) \/ race_commit(w) \/ race_locked(w)
    \/ race_return
    \/ Tick

SpecRace == Init /\ [][NextRace]_vars

(***************************************************************************)
(* Properties of overlapping insert_results calls.                         *)
(***************************************************************************)
DomainsOf(results) ==
    { NormalizedDomain(results[k].domain) : k \in 1..Len(results) } \ { <<>> }

RowsOfDomain(rs, domain) == { i \in 1..Len(rs) : MatchesDomain(rs[i], domain) }

(* C30: when two insert_results calls with overwrite False both carry a    *)
(* normalized domain that the store did not hold, and both have            *)
(* committed, the store holds one row of that domain, not two, with or     *)
(* without a config.                                                       *)
C30_NoDoubleInsert ==
    (/\ call.op = "race"
     /\ \A w \in Writers : call.w[w].pc = "done" /\ ~call.w[w].overwrite)
    => \A d \in DomainsOf(call.w[1].results) \cap DomainsOf(call.w[2].results) :
          RowsOfDomain(call.before.rows, d) = {}
          => Cardinality(RowsOfDomain(rows, d)) <= 1

(***************************************************************************)
(* Where a pipeline run touches the store.                                 *)
(***************************************************************************)
StoreWritten == rows' # rows \/ seq' # seq \/ batch_metadata' # batch_metadata

TasksOutstanding(r) == r.pc = "running" /\ r.pending # {}

(* C31: within one run the store is read only before any task is          *)
(* dispatched (what the run took from the store is fixed from then on)     *)
(* and written only after every dispatched task has completed or failed;   *)
(* no store write happens while a task of the run is outstanding.          *)
C31_StoreTouchedOutsideTasks ==
    [][ /\ TasksOutstanding(run) => ~StoreWritten
        /\ run.pc = "running"
           => /\ run'.domains_to_process = run.domains_to_process
              /\ run'.existing_results = run.existing_results
              /\ run'.rows0 = run.rows0
        /\ (run.pc = "running" /\ StoreWritten)
           => (run.pending = {} /\ run'.pc = "done")
        /\ (run = NoRun /\ StoreWritten)
           => (run'.pc = "done" /\ run'.domains_to_process = <<>>) ]_vars

(* A run whose two tasks both completed before its one store write.        *)
C31_Witness ==
    /\ run.pc = "done"
    /\ run.entry = "cli"
    /\ Len(run.completed) = 2
    /\ Len(rows) > Len(run.rows0)

(***************************************************************************)
(* What the CLI run emits for the tasks that succeeded.                    *)
(***************************************************************************)
SuccessfulTasks(r) == { i \in 1..Len(r.outcomes) : r.outcomes[i] # NoneVal }

(* C32: in the CLI pipeline the record of every task that succeeded is in  *)
(* the final ordered results, whatever domain string the classifier        *)
(* answered with, and, when no earlier results are merged in, the final    *)
(* list has as many records as tasks succeeded.                            *)
C32_EverySuccessEmitted ==
    (run.pc = "done" /\ run.entry = "cli" /\ run.domains_to_process # <<>>)
    => /\ \A i \in SuccessfulTasks(run) :
             \E k \in 1..Len(run.final_ordered_results) :
                 run.final_ordered_results[k] = run.outcomes[i]
       /\ run.existing_results = <<>>
          => Len(run.final_ordered_results) = Cardinality(SuccessfulTasks(run))

(* C33: every stored row's batch_id is the id of an existing batch record, *)
(* whether insert_results was given a config or not.                       *)
C33_RowBatchExists ==
    \A i \in 1..Len(rows) : rows[i].batch_id \in DOMAIN batch_metadata

(***************************************************************************)
(* classify_site followed by the storing of what it returned               *)
(* (process_domain hands the dict on, write_database_only stores it).      *)
(***************************************************************************)
store_classification ==
    /\ run.pc = "cs_returned"
    /\ seq < MaxId
    /\ LET out == InsertResults(Store, <<run.ret>>, NoneVal, NoneVal, FALSE, now)
       IN  /\ rows' = out.rows
           /\ seq' = out.seq
           /\ batch_metadata' = out.batch_metadata
    /\ run' = NoRun
    /\ UNCHANGED <<now, call, csv_file, prev>>

NextLabels ==
    \/ classify_site \/ classify_site_attempt \/ classify_site_return
    \/ store_classification \/ Tick

SpecLabels == Init /\ [][NextLabels]_vars

Labels == {"Marketing", "Portal", "Other", "Error"}

(* C34: every stored row's label is one of Marketing, Portal, Other and    *)
(* Error, whatever the classifier answered.                                *)
C34_StoredLabelInEnum ==
    \A i \in 1..Len(rows) : rows[i].classification_label \in Labels

(* C35: when insert_results raises part-way through a batch, the store is  *)
(* as it was before the call: the rows it inserted, the rows it deleted    *)
(* for overwrite and its batch record are all undone.                      *)
C35_RaiseLeavesStoreUnchanged ==
    (InTxn(call) /\ call.stage = "rolled_back")
    => /\ rows = call.before.rows
       /\ seq = call.before.seq
       /\ batch_metadata = call.before.batch_metadata

(* A call with a config and overwrite that had written its batch record,   *)
(* deleted a stored row and inserted its replacement when it raised, with  *)
(* records left to process.                                                *)
C35_Witness ==
    /\ InTxn(call) /\ call.stage = "rolled_back"
    /\ call.config # NoneVal
    /\ call.remaining # <<>>
    /\ call.working.st.updated_count > 0
    /\ call.working.st.rows # call.before.rows
    /\ Store = call.before

(***************************************************************************)
(* ClassificationDatabase.get_statistics: two queries, each on its own     *)
(* connection.  Between them another connection may commit.                *)
(***************************************************************************)
InBatch(row, batch_id) == batch_id # NoneVal => row.batch_id = batch_id

(* The first query: the number of rows of each classification_label. *)
LabelCounts(store, batch_id) ==
    LET selected == { i \in 1..Len(store.rows) : InBatch(store.rows[i], batch_id) }
        labels == { store.rows[i].classification_label : i \in selected }
    IN  [ l \in labels |->
            Cardinality({ i \in selected : store.rows[i].classification_label = l }) ]

(* The second query: the number of rows. *)
TotalCount(store, batch_id) ==
    Cardinality({ i \in 1..Len(store.rows) : InBatch(store.rows[i], batch_id) })

stats_label_counts ==
    /\ call = NoCall
    /\ \E batch_id \in {NoneVal} \cup BatchIds :
        call' = [ op |-> "get_statistics", stage |-> "counted", batch_id |-> batch_id,
                  by_label |-> LabelCounts(Store, batch_id), total |-> -1 ]
    /\ UNCHANGED <<rows, seq, batch_metadata, now, run, csv_file, prev>>

stats_total_count ==
    /\ call.op = "get_statistics" /\ call.stage = "counted"
    /\ call' = [call EXCEPT !.stage = "done", !.total = TotalCount(Store, call.batch_id)]
    /\ UNCHANGED <<rows, seq, batch_metadata, now, run, csv_file, prev>>

(* Another connection commits an insert_results between the two queries. *)
stats_insert_commits ==
    /\ call.op = "get_statistics" /\ call.stage = "counted"
    /\ \E results \in ResultLists, config \in ConfigInputs, overwrite \in BOOLEAN :
        LET out == InsertResults(Store, results, NoneVal, config, overwrite, now)
        IN  /\ out.seq <= MaxId
            /\ out.rows # rows
            /\ rows' = out.rows
            /\ seq' = out.seq
            /\ batch_metadata' = out.batch_metadata
    /\ UNCHANGED <<now, call, run, csv_file, prev>>

(* Another connection commits a delete_batch between the two queries. *)
stats_delete_commits ==
    /\ call.op = "get_statistics" /\ call.stage = "counted"
    /\ \E batch_id \in BatchIds :
        LET out == DeleteBatch(Store, batch_id)
        IN  /\ out.rows # rows
            /\ rows' = out.rows
            /\ seq' = out.seq
            /\ batch_metadata' = out.batch_metadata
    /\ UNCHANGED <<now, call, run, csv_file, prev>>

NextStats ==
    \/ insert_results \/ delete_batch
    \/ stats_label_counts \/ stats_insert_commits \/ stats_delete_commits
    \/ stats_total_count \/ Return \/ Tick

SpecStats == Init /\ [][NextStats]_vars

RECURSIVE SumCounts(_)
SumCounts(counts) ==
    IF DOMAIN counts = {} THEN 0
    ELSE LET l == CHOOSE x \in DOMAIN counts : TRUE
         IN  counts[l] + SumCounts([k \in DOMAIN counts \ {l} |-> counts[k]])

(* C36: the total that get_statistics returns is the sum of its by_label   *)
(* counts, also when another writer commits while it runs.                 *)
C36_TotalIsSumOfLabels ==
    (call.op = "get_statistics" /\ call.stage = "done")
    => call.total = SumCounts(call.by_label)

(***************************************************************************)
(* ClassificationDatabase.get_results with limit and offset.  The rows     *)
(* come newest processed_at first; rows with equal processed_at come in    *)
(* an order the query does not fix.  A limit of None or 0 is no limit.     *)
(***************************************************************************)
NoLimit == 0

Limits == {NoLimit, 1, 2}

Offsets == {0, 1, 2}

(* The orders in which ORDER BY processed_at DESC may return the rows. *)
Ordered(selected) ==
    { s \in [1..Cardinality(selected) -> selected] :
        /\ \A i, j \in 1..Cardinality(selected) : i # j => s[i] # s[j]
        /\ \A i \in 1..(Cardinality(selected) - 1) :
              s[i].processed_at >= s[i + 1].processed_at }

(* if limit: LIMIT ?, and inside it, if offset: OFFSET ? *)
Page(ordered, limit, offset) ==
    IF limit # NoLimit
    THEN SubSeq(ordered, offset + 1,
                IF offset + limit < Len(ordered) THEN offset + limit ELSE Len(ordered))
    ELSE ordered

get_results_page ==
    /\ call = NoCall
    /\ \E limit \in Limits, offset \in Offsets, label_filter \in LabelFilters :
        \E ordered \in Ordered(GetResults(Store, NoneVal, label_filter, NoneVal)) :
            call' = [ op |-> "get_results_page", limit |-> limit, offset |-> offset,
                      label_filter |-> label_filter, ordered |-> ordered,
                      ret |-> Page(ordered, limit, offset) ]
    /\ UNCHANGED <<rows, seq, batch_metadata, now, run, csv_file, prev>>

NextPage == insert_results \/ get_results_page \/ Return \/ Tick

SpecPage == Init /\ [][NextPage]_vars

(* C37: get_results with offset k leaves out the first k rows of the       *)
(* ordered, filtered rows, with a limit and without one.                   *)
C37_OffsetOmitsFirstRows ==
    call.op = "get_results_page"
    => LET rest == SubSeq(call.ordered, call.offset + 1, Len(call.ordered))
       IN  IF call.limit = NoLimit THEN call.ret = rest
           ELSE call.ret = SubSeq(rest, 1, IF call.limit < Len(rest)
                                           THEN call.limit ELSE Len(rest))

(***************************************************************************)
(* ClassificationDatabase.remove_duplicate_domains: DELETE ... WHERE id    *)
(* NOT IN (SELECT MAX(id) ... GROUP BY domain).  GROUP BY compares the     *)
(* stored strings as they are.  The rows it runs on are those that         *)
(* insert_results calls, overlapping or not, have left in the store.       *)
(***************************************************************************)
MaxIdOfGroup(rs, domain) ==
    LET ids == { rs[i].id : i \in { j \in 1..Len(rs) : rs[j].domain = domain } }
    IN  CHOOSE x \in ids : \A y \in ids : y <= x

RemoveDuplicateDomains(store) ==
    LET Newest(r) == r.id = MaxIdOfGroup(store.rows, r.domain)
        kept == SelectSeq(store.rows, Newest)
    IN  [ rows |-> kept, seq |-> store.seq, batch_metadata |-> store.batch_metadata,
          duplicates_removed |-> Len(store.rows) - Len(kept) ]

remove_duplicate_domains ==
    /\ call = NoCall
    /\ LET out == RemoveDuplicateDomains(Store)
       IN  /\ rows' = out.rows
           /\ call' = [ op |-> "remove_duplicate_domains", before |-> rows,
                        ret |-> out.duplicates_removed ]
    /\ UNCHANGED <<seq, batch_metadata, now, run, csv_file, prev>>

remove_duplicate_domains_return ==
    /\ call.op = "remove_duplicate_domains"
    /\ call' = NoCall
    /\ UNCHANGED <<rows, seq, batch_metadata, now, run, csv_file, prev>>

NextCleanup == NextRace \/ remove_duplicate_domains \/ remove_duplicate_domains_return

SpecCleanup == Init /\ [][NextCleanup]_vars

(* C38: after remove_duplicate_domains every normalized domain             *)
(* lower(trim(domain)) has at most one row, the one with the greatest id   *)
(* among the rows the domain had before the call.                          *)
C38_OneNewestRowPerDomain ==
    call.op = "remove_duplicate_domains"
    => \A b \in 1..Len(call.before) :
          LET d == SqlLower(SqlTrim(call.before[b].domain))
              had == RowsOfDomain(call.before, d)
              left == RowsOfDomain(rows, d)
          IN  /\ Cardinality(left) <= 1
              /\ \A i \in left : \A j \in had : call.before[j].id <= rows[i].id

(***************************************************************************)
(* One CLI run from the dispatch of its tasks to its return, with the      *)
(* worker pool, the retry loop of classify_site inside each task, the      *)
(* as_completed collector and write_results.  Every domain of the list is  *)
(* dispatched (--overwrite).  A task is process_domain: the fetch, which   *)
(* may raise, and then classify_site.                                      *)
(***************************************************************************)
TaskResponses ==
    { [kind |-> "transport_error"],
      [kind |-> "arguments", json |-> [type |-> "invalid"]],
      [kind |-> "arguments",
       json |-> JsonDict([domain |-> <<"a">>, classification_label |-> "Marketing",
                          summary |-> "s1", confidence_level |-> 9])] }

TaskDomainLists == UNION { [1..n -> {<<"A">>, <<"a", "b">>}] : n \in 1..MaxDomains }

task_open ==
    /\ run = NoRun
    /\ \E domains \in TaskDomainLists, workers \in WorkerCounts :
        /\ seq + Len(domains) <= MaxId
        /\ run' = [ entry |-> "tasks", pc |-> "pool", workers |-> workers,
                    domains |-> domains, next |-> 1, queue |-> <<>>, threads |-> 0,
                    running |-> {}, finished |-> {}, collected |-> {},
                    attempts |-> [i \in 1..Len(domains) |-> 0],
                    outcomes |-> [i \in 1..Len(domains) |-> NoneVal] ]
    /\ UNCHANGED <<rows, seq, batch_metadata, now, call, csv_file, prev>>

(* executor.submit(process_domain, domain, ...) for the next entry. *)
task_submit ==
    /\ run.pc = "pool"
    /\ run.next <= Len(run.domains)
    /\ run' = [run EXCEPT
                 !.queue = Append(@, run.next),
                 !.next = @ + 1,
                 !.threads = AdjustThreadCount(@, run.workers,
                                               @ - Cardinality(run.running),
                                               Len(run.queue) + 1)]
    /\ UNCHANGED <<rows, seq, batch_metadata, now, call, csv_file, prev>>

(* A pool that drops the work item it takes from the queue. *)
task_start_Cancels ==
    /\ run.pc = "pool"
    /\ run.queue # <<>>
    /\ Cardinality(run.running) < run.threads
    /\ run' = [run EXCEPT !.queue = Tail(@)]
    /\ UNCHANGED <<rows, seq, batch_metadata, now, call, csv_file, prev>>

(* A free thread takes the oldest work item and starts process_domain. *)
task_start ==
    /\ run.pc = "pool"
    /\ run.queue # <<>>
    /\ Cardinality(run.running) < run.threads
    /\ run' = [run EXCEPT !.queue = Tail(@), !.running = @ \cup {Head(run.queue)}]
    /\ UNCHANGED <<rows, seq, batch_metadata, now, call, csv_file, prev>>

(* fetch_site_enhanced (or the extraction) raises: process_domain returns  *)
(* None.                                                                   *)
task_fetch_raises ==
    /\ run.pc = "pool"
    /\ \E i \in run.running :
        /\ run.attempts[i] = 0
        /\ run' = [run EXCEPT !.running = @ \ {i}, !.finished = @ \cup {i}]
    /\ UNCHANGED <<rows, seq, batch_metadata, now, call, csv_file, prev>>

(* One pass of the while loop of classify_site in a running task; the task *)
(* ends when classify_site returns.                                        *)
task_attempt ==
    /\ run.pc = "pool"
    /\ \E i \in run.running : \E response \in TaskResponses :
        LET out == TryBody(response)
            attempts == NextAttempts(run.attempts[i], Handler(out.raises))
            Ends(value) == [run EXCEPT !.running = @ \ {i}, !.finished = @ \cup {i},
                                       !.outcomes[i] = value]
        IN  /\ run.attempts[i] < max_retries
            /\ run' = IF out.raises = "nothing" THEN Ends(out.value)
                      ELSE IF attempts < max_retries
                      THEN [run EXCEPT !.attempts[i] = attempts]
                      ELSE [Ends(ErrorClassification(run.domains[i]))
                               EXCEPT !.attempts[i] = attempts]
    /\ UNCHANGED <<rows, seq, batch_metadata, now, call, csv_file, prev>>

(* as_completed yields a finished future of future_to_domain_index, which  *)
(* holds the futures of all the submitted tasks.                           *)
task_collect ==
    /\ run.pc = "pool"
    /\ run.next > Len(run.domains)
    /\ \E i \in run.finished \ run.collected :
        run' = [run EXCEPT !.collected = @ \cup {i}]
    /\ UNCHANGED <<rows, seq, batch_metadata, now, call, csv_file, prev>>

(* The as_completed loop has seen every future and the with block ends. *)
task_close ==
    /\ run.pc = "pool"
    /\ run.next > Len(run.domains)
    /\ run.collected = 1..Len(run.domains)
    /\ run' = [run EXCEPT !.pc = "joined"]
    /\ UNCHANGED <<rows, seq, batch_metadata, now, call, csv_file, prev>>

(* Lines 233-251: order the results and write them. *)
task_write ==
    /\ run.pc = "joined"
    /\ LET successful_results == SelectSeq(run.outcomes, IsResult)
           final_results_map == FinalResultsMap(<<>>, successful_results, TRUE)
           final_ordered_results == FinalOrderedResults(run.domains, final_results_map)
           w == write_results(Store, final_ordered_results, CliConfig, now)
       IN  /\ rows' = w.store.rows
           /\ seq' = w.store.seq
           /\ batch_metadata' = w.store.batch_metadata
           /\ csv_file' = w.csv_file
           /\ run' = [run EXCEPT !.pc = "persisted"]
    /\ UNCHANGED <<now, call, prev>>

task_return ==
    /\ run.pc = "persisted"
    /\ run' = NoRun
    /\ UNCHANGED <<rows, seq, batch_metadata, now, call, csv_file, prev>>

NextTasks ==
    \/ task_open \/ task_submit \/ task_start \/ task_fetch_raises \/ task_attempt
    \/ task_collect \/ task_close \/ task_write \/ task_return

(* What a task_write step does to run: the steps of NextTasks that do so   *)
(* are the task_write steps, and it is enabled when task_write is.         *)
task_write_step == run.pc = "joined" /\ run' = [run EXCEPT !.pc = "persisted"]

(* Every thread that can take a step takes one: the pool's threads, the    *)
(* collaborators that return or raise, and the main thread.                *)
SpecTasks ==
    /\ Init /\ [][NextTasks]_vars
    /\ WF_vars(task_submit) /\ WF_vars(task_start)
    /\ WF_vars(task_fetch_raises \/ task_attempt)
    /\ WF_vars(task_collect) /\ WF_vars(task_close)
    /\ WF_run(task_write_step) /\ WF_vars(task_return)

(***************************************************************************)
(* Termination of a run.                                                   *)
(***************************************************************************)
InTasks(r) == r.pc \in {"pool", "joined", "persisted"}

Dispatched(r, i) == InTasks(r) /\ i < r.next

Terminal(r, i) == InTasks(r) /\ i <= Len(r.domains) /\ i \in r.finished

(* C39: every dispatched task reaches a terminal outcome, a record or a    *)
(* failure, and the run goes on to write_results and returns; the          *)
(* collector takes only tasks that were dispatched, and the pool is left   *)
(* only when every task has ended.                                         *)
C39_RunTerminates ==
    /\ \A i \in 1..MaxDomains : Dispatched(run, i) ~> Terminal(run, i)
    /\ InTasks(run) ~> (run.pc = "persisted")
    /\ (run.pc = "persisted") ~> (run = NoRun)
    /\ [](InTasks(run)
          => /\ run.collected \subseteq run.finished
             /\ run.finished \subseteq 1..(run.next - 1)
             /\ run.pc # "pool" => run.finished = 1..Len(run.domains))

(* A run of two tasks that has been persisted, one task having failed in   *)
(* the fetch and the other having used up the retries of classify_site.    *)
C39_Witness ==
    /\ run.pc = "persisted"
    /\ Len(run.domains) = 2
    /\ \E i, j \in 1..2 :
          /\ run.attempts[i] = 0 /\ run.outcomes[i] = NoneVal
          /\ run.attempts[j] = max_retries
          /\ run.outcomes[j] = ErrorClassification(run.domains[j])

====
